---- MODULE Spec2Model ----
(***************************************************************************)
(* State-machine model of the Ansel photography plugin:                    *)
(*   - FNVAnselCameraPhotographyPrivate (the camera-photography provider), *)
(*     its five SDK callbacks, UpdateCamera and UpdatePostProcessing;      *)
(*   - FAnselModule (DLL load / unload, provider creation);                *)
(*   - UAnselFunctionLibrary (Blueprint setters of the console variables). *)
(*                                                                         *)
(* The engine and the Ansel SDK are the environment.  Of the engine only   *)
(* the state the plugin reads and writes is kept (pause, time dilation,    *)
(* HUD, subtitles, fading, screen messages, camera-moveable flag, console  *)
(* variables).  Of the SDK only what the plugin hands to it (the accepted  *)
(* configuration) and the session / capture it believes to be open.        *)
(*                                                                         *)
(* Numbers: console-variable values are integers.  Values that are         *)
(* fractional in the source are kept in hundredths (0.25 -> 25).           *)
(* Console-variable names are written in lower case: FString keys and the  *)
(* console manager both compare names without regard to case, so           *)
(* "r.ViewDistanceScale" and "r.viewdistancescale" are one variable.       *)
(***************************************************************************)
EXTENDS Integers, Sequences, FiniteSets, TLC

(***************************************************************************)
(* Bounds of the model                                                     *)
(***************************************************************************)
\* NumFramesSinceSessionStart is a uint32 that only is compared with 2; the
\* model stops counting at MaxFrames (> 2).
MaxFrames == 3
\* Number of provider objects CreateCameraPhotography may build.
MaxProviders == 2

(***************************************************************************)
(* Program constants                                                       *)
(***************************************************************************)
PauseFrame == 2

VARIABLES
    provider,   \* fields of FNVAnselCameraPhotographyPrivate
    engine,     \* engine state the plugin saves, overrides and restores
    console,    \* IConsoleManager: console-variable name -> value
    sdk,        \* Ansel SDK: open session / capture, registered controls
    frame,      \* engine frame loop: which provider entry point is next, pc
    obs,        \* observations: calls made by the last handler, snapshots
    module,     \* FAnselModule statics, provider objects, sink registry
    twin,       \* a second run of the plugin fed the same callbacks and frames
    camera      \* the static of ConstrainCameraByGeometry and the collision world

vars == <<provider, engine, console, sdk, frame, obs, module, twin, camera>>

\* The camera-constraint state before ConstrainCameraByGeometry has run: its
\* function-local static is not initialized (bInitialized is the guard of
\* the static, the location is the value of the unset storage); Blocking and Confined are the
\* points where the camera sphere and the (twice as large) open-space
\* sphere overlap geometry.
CameraStatics ==
    [LastUnconfinedScreenshotCamera |-> <<0, 0, 0>>, bInitialized |-> FALSE,
     Blocking |-> {}, Confined |-> {}, calls |-> 0]

(***************************************************************************)
(* Console variables                                                       *)
(***************************************************************************)
\* TAutoConsoleVariable definitions of the plugin with their defaults.
PhotographyCVarDefaults ==
    [n \in {"r.photography.allow", "r.photography.autopostprocess",
            "r.photography.autopause", "r.photography.allowhighquality",
            "r.photography.extreme", "r.photography.settleframes",
            "r.photography.translationspeed"} |->
        CASE n = "r.photography.allow" -> 1
          [] n = "r.photography.autopostprocess" -> 1
          [] n = "r.photography.autopause" -> 1
          [] n = "r.photography.allowhighquality" -> 1
          [] n = "r.photography.extreme" -> 0
          [] n = "r.photography.settleframes" -> 10
          [] n = "r.photography.translationspeed" -> 300]

\* One call of SetCapturedCVar / SetCapturedCVarPredicated.
CVarCall(name, val, cmp, wantReset, useExisting) ==
    [CVarName |-> name, valueIfNotReset |-> val, comparison |-> cmp,
     wantReset |-> wantReset, useExistingPriority |-> useExisting]

\* SetUpSessionCVars: SetCapturedCVar(name, value) with the default
\* arguments wantReset = false, useExistingPriority = false.
SessionCVarCalls ==
    << CVarCall("r.oneframethreadlag", 1, "always", FALSE, FALSE),
       CVarCall("r.streaming.minmipforsplitrequest", 1, "always", FALSE, FALSE),
       CVarCall("r.streaming.boost", 1, "always", FALSE, FALSE),
       CVarCall("r.motionblurquality", 0, "always", FALSE, FALSE) >>

\* Streaming variables forced while a capture is active (two of the four).
CaptureCVarCalls ==
    << CVarCall("r.disablelodfade", 1, "always", FALSE, FALSE),
       CVarCall("r.streaming.framesforfullupdate", 1, "always", FALSE, FALSE) >>

\* LOD_CVAR(NAME, BOOSTVAL): SetCapturedCVar(NAME, BOOSTVAL, !bHighLodDesired, true)
LodCVarCalls(bHighLodDesired) ==
    << CVarCall("r.texturestreaming", 0, "always", ~bHighLodDesired, TRUE),
       CVarCall("r.particlelodbias", -10, "always", ~bHighLodDesired, TRUE) >>

\* The high-quality block.  One line of each macro kind is kept:
\* QUALITY_CVAR_LOWPRIORITY_AT_LEAST, QUALITY_CVAR_AT_MOST, QUALITY_CVAR,
\* QUALITY_CVAR_AT_LEAST; the other lines repeat these macros on more names.
QualityCVarCalls(bHighQualityModeDesired) ==
    << CVarCall("r.screenpercentage", 100, "greater", ~bHighQualityModeDesired, FALSE),
       CVarCall("r.staticmeshloddistancescale", 25, "less", ~bHighQualityModeDesired, TRUE),
       CVarCall("r.shadowquality", 5, "always", ~bHighQualityModeDesired, TRUE),
       CVarCall("r.viewdistancescale", 50, "greater", ~bHighQualityModeDesired, TRUE) >>

\* The extra lines under CVarExtreme (names that repeat earlier ones kept).
ExtremeCVarCalls(bHighQualityModeDesired) ==
    << CVarCall("r.streaming.poolsize", 3000, "greater", ~bHighQualityModeDesired, TRUE),
       CVarCall("r.viewdistancescale", 10, "greater", ~bHighQualityModeDesired, TRUE),
       CVarCall("r.particlelodbias", -10, "always", ~bHighQualityModeDesired, TRUE) >>

\* Engine console variables the model knows, with the value each has when
\* the game starts.  r.streaming.boost and r.streaming.poolsize may be
\* absent from the console manager (see OptionalCVars).
EngineCVarDefaults ==
    [n \in {"r.oneframethreadlag", "r.streaming.minmipforsplitrequest",
            "r.streaming.boost", "r.motionblurquality", "r.disablelodfade",
            "r.streaming.framesforfullupdate", "r.texturestreaming",
            "r.particlelodbias", "r.screenpercentage",
            "r.staticmeshloddistancescale", "r.shadowquality",
            "r.viewdistancescale", "r.streaming.poolsize"} |->
        CASE n = "r.oneframethreadlag" -> 0
          [] n = "r.streaming.minmipforsplitrequest" -> 0
          [] n = "r.streaming.boost" -> 2
          [] n = "r.motionblurquality" -> 4
          [] n = "r.disablelodfade" -> 0
          [] n = "r.streaming.framesforfullupdate" -> 5
          [] n = "r.texturestreaming" -> 1
          [] n = "r.particlelodbias" -> 0
          [] n = "r.screenpercentage" -> 80
          [] n = "r.staticmeshloddistancescale" -> 100
          [] n = "r.shadowquality" -> 3
          [] n = "r.viewdistancescale" -> 20
          [] n = "r.streaming.poolsize" -> 1000]

\* Names that FindConsoleVariable may fail to find in a given build.
OptionalCVars == {"r.streaming.boost", "r.streaming.poolsize"}

Restrict(f, S) == [x \in S |-> f[x]]


(***************************************************************************)
(* The world a handler works on: W.p the provider object, W.e the engine,  *)
(* W.c the console manager, W.s the SDK, W.k the engine / SDK / Blueprint  *)
(* calls the handler has made so far, W.r the handler's return value.     *)
(***************************************************************************)
World == [p |-> provider, e |-> engine, c |-> console, s |-> sdk,
          m |-> module, k |-> {}, t |-> {}, r |-> FALSE]

Call(W, name) == [W EXCEPT !.k = @ \cup {name}]

\* IConsoleManager::FindConsoleVariable(name) != nullptr
FindConsoleVariable(W, CVarName) == CVarName \in DOMAIN W.c

\* Variant with the classic slip of recording an entry for a name the
\* console manager does not know.
CaptureCVarRecordsMissing(W, CVarName) ==
    IF ~FindConsoleVariable(W, CVarName)
    THEN [W EXCEPT !.p.InitialCVarMap = (CVarName :> 0) @@ @]
    ELSE [W EXCEPT !.p.InitialCVarMap = (CVarName :> W.c[CVarName]) @@ @]

\* CaptureCVar: look the variable up; if found, InitialCVarMap.Add(name,
\* {cvar, cvar->GetFloat()}).  TMap::Add replaces an existing entry.
CaptureCVar(W, CVarName) ==
    IF ~FindConsoleVariable(W, CVarName)
    THEN W
    ELSE [W EXCEPT !.p.InitialCVarMap = (CVarName :> W.c[CVarName]) @@ @]

\* std::function<bool(float, float)> comparison(valueIfNotReset, fInitialVal)
Compare(comparison, a, b) ==
    CASE comparison = "always"  -> TRUE
      [] comparison = "greater" -> a > b
      [] comparison = "less"    -> a < b

\* IConsoleVariable::Set / SetWithCurrentPriority; W.t collects the names
\* written by the handler.
SetCVar(W, CVarName, v) == [W EXCEPT !.c[CVarName] = v, !.t = @ \cup {CVarName}]

\* SetCapturedCVarPredicated.  Both Set and SetWithCurrentPriority store
\* the value; the priority a value is stored with is not modelled.
SetCapturedCVarPredicated(W, call) ==
    LET W1 == IF call.CVarName \in DOMAIN W.p.InitialCVarMap
              THEN W
              ELSE CaptureCVar(W, call.CVarName) IN
    IF call.CVarName \in DOMAIN W1.p.InitialCVarMap
    THEN LET fInitialVal == W1.p.InitialCVarMap[call.CVarName] IN
         IF Compare(call.comparison, call.valueIfNotReset, fInitialVal)
         THEN SetCVar(W1, call.CVarName,
                      IF call.wantReset THEN fInitialVal ELSE call.valueIfNotReset)
         ELSE W1
    ELSE W1

\* A run of SetCapturedCVar... statements, in program order.
RECURSIVE SetCapturedCVars(_, _)
SetCapturedCVars(W, calls) ==
    IF calls = << >> THEN W
    ELSE SetCapturedCVars(SetCapturedCVarPredicated(W, Head(calls)), Tail(calls))

SetUpSessionCVars(W) == SetCapturedCVars(W, SessionCVarCalls)

\* RESTORE CVARS FROM SESSION START: every entry of InitialCVarMap is
\* written back with SetWithCurrentPriority, then the map is emptied.
RestoreCVars(W) ==
    [W EXCEPT !.c = [n \in DOMAIN W.c |->
                        IF n \in DOMAIN W.p.InitialCVarMap
                        THEN W.p.InitialCVarMap[n] ELSE W.c[n]],
              !.p.InitialCVarMap = << >>]

(***************************************************************************)
(* Engine calls made by the plugin                                         *)
(***************************************************************************)
\* APlayerController::SetPause
SetPause(W, bPause) ==
    Call([W EXCEPT !.e.Paused = bPause],
         IF bPause THEN "SetPause(true)" ELSE "SetPause(false)")

\* AWorldSettings::SetTimeDilation
SetTimeDilation(W, v) ==
    Call([W EXCEPT !.e.TimeDilation = v], "SetTimeDilation")

\* AHUD::ShowHUD toggles bShowHUD
ShowHUD(W) == Call([W EXCEPT !.e.bShowHUD = ~@], "ShowHUD")

\* UGameplayStatics::SetSubtitlesEnabled
SetSubtitlesEnabled(W, b) ==
    Call([W EXCEPT !.e.SubtitlesEnabled = b], "SetSubtitlesEnabled")

\* PCMgr->bEnableFading = b
SetEnableFading(W, b) ==
    Call([W EXCEPT !.e.bEnableFading = b], "bEnableFading")


(***************************************************************************)
(* ReconfigureAnsel / DeconfigureAnsel                                     *)
(***************************************************************************)
\* ansel::setConfiguration: the SDK keeps the configuration when it returns
\* kSetConfigurationSuccess (accept) and keeps its old one otherwise.
setConfiguration(W, config, accept) ==
    Call(IF accept THEN [W EXCEPT !.s.config = config] ELSE W,
         "ansel::setConfiguration")

\* ReconfigureAnsel of provider object `this`.
ReconfigureAnsel(W, this, accept) ==
    LET config == [userPointer |-> this,
                   callbacks |-> TRUE,
                   fovType |-> W.p.RequiredFovType,
                   worldToMeters |-> W.p.RequiredWorldToMeters,
                   translationalSpeedInWorldUnitsPerSecond |->
                       W.c["r.photography.translationspeed"],
                   captureSettleLatency |-> W.c["r.photography.settleframes"]]
        W1 == setConfiguration([W EXCEPT !.p.AnselConfig = config], config, accept)
    IN [W1 EXCEPT !.p.CurrentlyConfiguredFovType = W.p.RequiredFovType,
                  !.p.CurrentlyConfiguredWorldToMeters = W.p.RequiredWorldToMeters]

(***************************************************************************)
(* UpdateCamera, statement group by statement group                        *)
(***************************************************************************)
\* bForceDisallow = false; if (!bAnselSessionActive) { ... }
\* in.bSplitscreenOrStereo : splitscreen configuration != None or IsStereoscopic3D
\* in.WorldToMeters        : WorldSettings->WorldToMeters (0 when unavailable)
\* in.FovType              : FOV type the viewport asks for ("unknown" when a
\*                           pointer of the chain PC/LocalPlayer/Viewport is null)
\* in.accept               : whether ansel::setConfiguration succeeds
UC_Preamble(W, in) ==
    LET W0 == [W EXCEPT !.p.bForceDisallow = FALSE, !.r = FALSE, !.k = {}] IN
    IF W0.p.bAnselSessionActive THEN W0
    ELSE LET W1 == [W0 EXCEPT
                     !.p.bForceDisallow = in.bSplitscreenOrStereo,
                     !.p.RequiredWorldToMeters =
                         IF in.WorldToMeters # 0 THEN in.WorldToMeters ELSE @,
                     !.p.RequiredFovType =
                         IF in.FovType # "unknown" THEN in.FovType ELSE @] IN
         IF \/ W1.p.CurrentlyConfiguredWorldToMeters # W1.p.RequiredWorldToMeters
            \/ W1.p.CurrentlyConfiguredFovType # W1.p.RequiredFovType
         THEN ReconfigureAnsel(W1, 1, in.accept)
         ELSE W1

\* ++NumFramesSinceSessionStart (the model stops counting at MaxFrames)
IncFrames(n) == IF n < MaxFrames THEN n + 1 ELSE n

\* Variant that sends the capture notifications only under bAutoPause.
UC_HeadNotifiesUnderAutoPause(W) ==
    LET W1 == [W EXCEPT !.p.NumFramesSinceSessionStart = IncFrames(@)]
        W2 == IF W1.p.bAnselCaptureNewlyActive /\ W1.p.bAutoPause
              THEN Call([W1 EXCEPT !.r = TRUE, !.p.bAnselCaptureNewlyActive = FALSE],
                        "OnPhotographyMultiPartCaptureStart")
              ELSE W1
        W3 == IF W2.p.bAnselCaptureNewlyFinished /\ W2.p.bAutoPause
              THEN Call([W2 EXCEPT !.r = TRUE, !.p.bAnselCaptureNewlyFinished = FALSE],
                        "OnPhotographyMultiPartCaptureEnd")
              ELSE W2
    IN W3

\* ++NumFramesSinceSessionStart; the two capture notifications
UC_Head(W) ==
    LET W1 == [W EXCEPT !.p.NumFramesSinceSessionStart = IncFrames(@)]
        W2 == IF W1.p.bAnselCaptureNewlyActive
              THEN Call([W1 EXCEPT !.r = TRUE, !.p.bAnselCaptureNewlyActive = FALSE],
                        "OnPhotographyMultiPartCaptureStart")
              ELSE W1
        W3 == IF W2.p.bAnselCaptureNewlyFinished
              THEN Call([W2 EXCEPT !.r = TRUE, !.p.bAnselCaptureNewlyFinished = FALSE],
                        "OnPhotographyMultiPartCaptureEnd")
              ELSE W2
    IN W3

\* if (bAnselSessionWantDeactivate) { ... }: the restoring branch
UC_Deactivate(W) ==
    LET W1 == [W EXCEPT !.p.bAnselSessionActive = FALSE,
                        !.p.bAnselSessionWantDeactivate = FALSE]
        W2 == IF W1.p.bAutoPostprocess
              THEN LET A == IF W1.p.bWasShowingHUDBeforeSession THEN ShowHUD(W1) ELSE W1
                       B == IF A.p.bWereSubtitlesEnabledBeforeSession
                            THEN SetSubtitlesEnabled(A, TRUE) ELSE A
                       C == IF B.p.bWasFadingEnabledBeforeSession
                            THEN SetEnableFading(B, TRUE) ELSE B
                   IN C
              ELSE W1
        W3 == [W2 EXCEPT !.e.GAreScreenMessagesEnabled =
                             W2.p.bWasScreenMessagesEnabledBeforeSession]
        W4 == IF W3.p.bAutoPause /\ ~W3.p.bWasPausedBeforeSession
              THEN [SetPause(SetTimeDilation(W3, W3.p.fTimeDilationBeforeSession), FALSE)
                        EXCEPT !.p.bPausedInternally = FALSE]
              ELSE W3
        W5 == [W4 EXCEPT !.e.bIsCameraMoveableWhenPaused =
                             W4.p.bWasMovableCameraBeforeSession]
        W6 == RestoreCVars(W5)
    IN Call([W6 EXCEPT !.p.bHighQualityModeIsSetup = FALSE], "OnPhotographySessionEnd")

\* if (bAnselSessionNewlyActive) { ... } up to and including
\* bCameraIsInOriginalState = true: the first-frame setup of a session
UC_FirstFrameSetup(W) ==
    LET W1 == Call([W EXCEPT !.p.NumFramesSinceSessionStart = 0],
                   "OnPhotographySessionStart")
        W2 == [W1 EXCEPT
                 !.p.bAutoPause = (W1.c["r.photography.autopause"] # 0),
                 !.p.bAutoPostprocess = (W1.c["r.photography.autopostprocess"] # 0),
                 !.p.bWasPausedBeforeSession = W1.e.Paused,
                 !.p.bWasMovableCameraBeforeSession = W1.e.bIsCameraMoveableWhenPaused,
                 !.e.bIsCameraMoveableWhenPaused = TRUE]
        W3 == IF W2.p.bAutoPause /\ ~W2.p.bWasPausedBeforeSession
              THEN SetTimeDilation(
                      [W2 EXCEPT !.p.fTimeDilationBeforeSession = W2.e.TimeDilation], 0)
              ELSE W2
        W4 == SetUpSessionCVars(W3)
        W5 == [W4 EXCEPT
                 !.p.bWasScreenMessagesEnabledBeforeSession = W4.e.GAreScreenMessagesEnabled,
                 !.e.GAreScreenMessagesEnabled = FALSE,
                 !.p.bWasFadingEnabledBeforeSession = W4.e.bEnableFading,
                 !.p.bWasShowingHUDBeforeSession = (W4.e.MyHUD /\ W4.e.bShowHUD),
                 !.p.bWereSubtitlesEnabledBeforeSession = W4.e.SubtitlesEnabled]
        W6 == IF W5.p.bAutoPostprocess
              THEN LET A == IF W5.p.bWasShowingHUDBeforeSession THEN ShowHUD(W5) ELSE W5
                   IN SetEnableFading(SetSubtitlesEnabled(A, FALSE), FALSE)
              ELSE W5
    IN Call([W6 EXCEPT !.p.bUIControlsNeedRebuild = TRUE], "ansel::updateCamera")

\* bAnselSessionNewlyActive = false; (last statement of the first-frame branch)
UC_FirstFrameDone(W) == [W EXCEPT !.p.bAnselSessionNewlyActive = FALSE]

\* Variant that gives Blueprints the camera during a capture too.
UC_LaterFrameAlwaysModifies(W) ==
    Call(Call(W, "ansel::updateCamera"), "PhotographyCameraModify")

\* else { ansel::updateCamera; if (!bAnselCaptureActive) BlueprintModifyCamera }
UC_LaterFrame(W) ==
    LET W1 == Call(W, "ansel::updateCamera") IN
    IF ~W1.p.bAnselCaptureActive THEN Call(W1, "PhotographyCameraModify") ELSE W1

\* if (NumFramesSinceSessionStart == 2) {...}; AnselCameraToFMinimalView(...)
UC_PauseAndView(W) ==
    LET W1 == IF W.p.NumFramesSinceSessionStart = PauseFrame
                 /\ W.p.bAutoPause /\ ~W.p.bWasPausedBeforeSession
              THEN [SetPause(W, TRUE) EXCEPT !.p.bPausedInternally = TRUE]
              ELSE W
    IN Call(W1, "AnselCameraToFMinimalView")

\* Variant that also reports a camera cut on every frame of a capture.
UC_CaptureTailReportsCut(W) ==
    IF W.p.bAnselCaptureActive
    THEN Call([W EXCEPT !.r = TRUE], "bConstrainAspectRatio=false") ELSE W

\* if (bAnselCaptureActive) InOutPOV.bConstrainAspectRatio = false;
UC_CaptureTail(W) ==
    IF W.p.bAnselCaptureActive THEN Call(W, "bConstrainAspectRatio=false") ELSE W

\* The whole of UpdateCamera, run without interruption.
UpdateCameraBody(W, in) ==
    LET W1 == UC_Preamble(W, in) IN
    IF ~W1.p.bAnselSessionActive THEN W1
    ELSE LET W2 == UC_Head(W1)
             W3 == IF W2.p.bAnselSessionWantDeactivate
                   THEN UC_Deactivate(W2)
                   ELSE UC_PauseAndView(
                          IF W2.p.bAnselSessionNewlyActive
                          THEN UC_FirstFrameDone(UC_FirstFrameSetup(W2))
                          ELSE UC_LaterFrame(W2))
         IN UC_CaptureTail(W3)


(***************************************************************************)
(* UpdatePostProcessing                                                    *)
(***************************************************************************)
\* The FPostProcessSettings fields the photography UI reads or tweaks.
\* Values are whole numbers of the field's own step: tenths for
\* DepthOfFieldSensorWidth, millionths for DepthOfFieldDepthBlurAmount,
\* hundredths for the bloom and fringe fields, units for the others.
PostProcessFields ==
    {"DepthOfFieldFstop", "DepthOfFieldScale", "DepthOfFieldFocalRegion",
     "DepthOfFieldSensorWidth", "DepthOfFieldFocalDistance",
     "DepthOfFieldDepthBlurAmount", "DepthOfFieldDepthBlurRadius",
     "BloomIntensity", "BloomSizeScale", "SceneFringeIntensity"}

\* FPostProcessSettings as far as the plugin goes: the deprecated screen
\* percentage, the bOverride_ flags the plugin raises (by field name), the
\* auto-exposure speeds it zeroes and the values of the UI-tweaked fields.
DefaultPostProcessSettings ==
    [ScreenPercentage |-> 100, overrides |-> {}, zeroed |-> {},
     val |-> [f \in PostProcessFields |-> 0]]

\* enum EUIControlEffectTarget
EUIControlEffectTarget == {"Bloom", "DepthOfField", "ChromaticAberration", "MotionBlur"}

\* The slider members of enum econtrols, in the order DoCustomUIControls
\* processes them, and the field each ProcessUISlider call writes.
Sliders ==
    << "control_dofscale", "control_doffocalregion", "control_dofsensorwidth",
       "control_doffocaldistance", "control_dofdepthbluramount",
       "control_dofdepthblurradius", "control_bloomintensity",
       "control_bloomscale", "control_scenefringeintensity" >>

SliderIds == {Sliders[i] : i \in DOMAIN Sliders}

SliderField(id) ==
    CASE id = "control_dofscale" -> "DepthOfFieldScale"
      [] id = "control_doffocalregion" -> "DepthOfFieldFocalRegion"
      [] id = "control_dofsensorwidth" -> "DepthOfFieldSensorWidth"
      [] id = "control_doffocaldistance" -> "DepthOfFieldFocalDistance"
      [] id = "control_dofdepthbluramount" -> "DepthOfFieldDepthBlurAmount"
      [] id = "control_dofdepthblurradius" -> "DepthOfFieldDepthBlurRadius"
      [] id = "control_bloomintensity" -> "BloomIntensity"
      [] id = "control_bloomscale" -> "BloomSizeScale"
      [] id = "control_scenefringeintensity" -> "SceneFringeIntensity"

\* What a float computed from a member that was never written stands for.
Indeterminate == -1

\* DeclareSlider(id, label, LowerBound, UpperBound, Val).  float_val is
\* GetRangePct(LowerBound, UpperBound, Val) = (Val - LowerBound) /
\* (UpperBound - LowerBound); the model keeps its numerator, the
\* denominator being the width of the control's range.  (Rounding of the
\* float arithmetic is not modelled.)
DeclareSlider(W, id, LowerBound, UpperBound, Val) ==
    Call([W EXCEPT !.p.UIControlRangeLower = (id :> LowerBound) @@ @,
                   !.p.UIControlRangeUpper = (id :> UpperBound) @@ @,
                   !.p.UIControlValues[id] = Val - LowerBound,
                   !.p.UIControls = @ \cup {id}], "ansel::addUserControl")

\* Variant that applies the slider whether or not the control is in use.
ProcessUISliderAlwaysInUse(W, id) ==
    LET v == IF id \in DOMAIN W.p.UIControlRangeLower
             THEN W.p.UIControlRangeLower[id] + W.p.UIControlValues[id]
             ELSE Indeterminate
    IN [W EXCEPT !.r.val[SliderField(id)] = v,
                 !.r.overrides = @ \cup {SliderField(id)}]

\* ProcessUISlider(id, InOutVal) on the settings W.r: when the control is
\* in use the field becomes Lerp(RangeLower, RangeUpper, float_val) and its
\* bOverride_ flag is raised (by the caller).
ProcessUISlider(W, id) ==
    IF id \notin W.p.UIControls THEN W
    ELSE LET v == IF id \in DOMAIN W.p.UIControlRangeLower
                  THEN W.p.UIControlRangeLower[id] + W.p.UIControlValues[id]
                  ELSE Indeterminate
         IN [W EXCEPT !.r.val[SliderField(id)] = v,
                      !.r.overrides = @ \cup {SliderField(id)}]

RECURSIVE ProcessUISliders(_, _)
ProcessUISliders(W, ids) ==
    IF ids = << >> THEN W
    ELSE ProcessUISliders(ProcessUISlider(W, Head(ids)), Tail(ids))

\* FNVAnselCameraPhotographyPrivate::SetUIControlVisibility
SetUIControlVisibility(W, UIControlTarget, bIsVisible) ==
    [W EXCEPT !.p.bEffectUIAllowed[UIControlTarget] = bIsVisible]

\* The "add all relevant controls" part of the rebuild; pp is
\* InOutPPSettings as handed in.
DeclareEffectSliders(W, pp) ==
    LET bAnyDofVisible == pp.val["DepthOfFieldFstop"] > 0
                          /\ pp.val["DepthOfFieldFocalDistance"] > 0
        W1 == IF W.p.bEffectUIAllowed["DepthOfField"] /\ bAnyDofVisible
              THEN LET A == DeclareSlider(W, "control_dofsensorwidth", 1, 10000,
                                          pp.val["DepthOfFieldSensorWidth"])
                       B == DeclareSlider(A, "control_doffocaldistance", 0, 1000,
                                          pp.val["DepthOfFieldFocalDistance"])
                       C == DeclareSlider(B, "control_dofdepthbluramount", 1, 1000000,
                                          pp.val["DepthOfFieldDepthBlurAmount"])
                   IN DeclareSlider(C, "control_dofdepthblurradius", 0, 4,
                                    pp.val["DepthOfFieldDepthBlurRadius"])
              ELSE W
        W2 == IF W1.p.bEffectUIAllowed["Bloom"] /\ pp.val["BloomIntensity"] > 0
              THEN DeclareSlider(
                       DeclareSlider(W1, "control_bloomintensity", 0, 800,
                                     pp.val["BloomIntensity"]),
                       "control_bloomscale", 0, 6400, pp.val["BloomSizeScale"])
              ELSE W1
    IN IF W2.p.bEffectUIAllowed["ChromaticAberration"]
          /\ pp.val["SceneFringeIntensity"] > 0
       THEN DeclareSlider(W2, "control_scenefringeintensity", 0, 1500,
                          pp.val["SceneFringeIntensity"])
       ELSE W2

\* DeclareBool(id, label, Val): the control is registered with the SDK and
\* its value starts at Val.
DeclareBool(W, id, Val) ==
    Call([W EXCEPT !.p.UIControls = @ \cup {id},
                   !.p.UIControlValues[id] = Val], "ansel::addUserControl")

\* ProcessUIBool(id, InOutVal): InOutVal ends as UIControlValues[id].bool_val
\* whether or not the control is in use.
ProcessUIBool(W, id) == W.p.UIControlValues[id]

\* DoCustomUIControls(InOutPPSettings, bRebuildControls); W.r is InOutPPSettings
DoCustomUIControls(W, bRebuildControls) ==
    LET W1 == IF bRebuildControls
              THEN LET A == IF W.p.UIControls # {}
                            THEN Call([W EXCEPT !.p.UIControls = {}],
                                      "ansel::removeUserControl")
                            ELSE W
                       B == DeclareBool(A, "control_OLDSettings", FALSE)
                       C == [B EXCEPT !.p.UEPostProcessingOriginal = W.r]
                       D == DeclareEffectSliders(C, W.r)
                   IN [D EXCEPT !.p.bUIControlsNeedRebuild = FALSE]
              ELSE W
        W2 == [W1 EXCEPT !.r = W1.p.UEPostProcessingOriginal]
        W3 == ProcessUISliders(W2, Sliders)
    IN [W3 EXCEPT !.p.bHighLodDesired = ProcessUIBool(W3, "control_OLDSettings")]

\* The post-process overrides forced during a capture under bAutoPostprocess.
CaptureOverrides(pp, captureType) ==
    LET bAnselSuperresCaptureActive == captureType = "kCaptureTypeSuperResolution"
        bAnselStereoCaptureActive == captureType \in {"kCaptureType360Stereo",
                                                      "kCaptureTypeStereo"}
    IN [pp EXCEPT
          !.overrides = @ \cup
              {"MotionBlurAmount", "BloomDirtMaskIntensity", "LensFlareIntensity",
               "VignetteIntensity", "SceneFringeIntensity"}
              \cup (IF pp.ScreenPercentage < 100 THEN {"ScreenPercentage"} ELSE {})
              \cup (IF bAnselStereoCaptureActive
                    THEN {"DepthOfFieldScale", "DepthOfFieldNearBlurSize",
                          "DepthOfFieldFarBlurSize", "DepthOfFieldDepthBlurRadius",
                          "DepthOfFieldVignetteSize"}
                    ELSE {})
              \cup (IF ~bAnselSuperresCaptureActive
                    THEN {"ScreenSpaceReflectionIntensity"} ELSE {}),
          !.ScreenPercentage = IF @ < 100 THEN 100 ELSE @,
          !.zeroed = @ \cup {"AutoExposureSpeedDown", "AutoExposureSpeedUp"}]

\* if (bAnselCaptureActive) { ... } at the end of
\* ConfigureRenderingSettingsForPhotography
ConfigureCapture(W) ==
    IF W.p.bAnselCaptureActive
    THEN LET W1 == SetCapturedCVars(W, CaptureCVarCalls)
         IN IF W1.p.bAutoPostprocess
            THEN [W1 EXCEPT !.r = CaptureOverrides(W1.r, W1.p.AnselCaptureInfo)]
            ELSE W1
    ELSE W

\* ConfigureRenderingSettingsForPhotography.  Of the five UI-toggled groups
\* (LOD, Lumen, sky light, sg quality, anti-aliasing) the LOD group is
\* modelled; the other four have the same shape on other names and flags.
\* The ray-tracing lines of the high-quality block are left out.
ConfigureRenderingSettingsForPhotography(W) ==
    LET W1 == IF W.p.bHighLodIsSetup # W.p.bHighLodDesired
              THEN [SetCapturedCVars(W, LodCVarCalls(W.p.bHighLodDesired))
                        EXCEPT !.p.bHighLodIsSetup = W.p.bHighLodDesired]
              ELSE W
        W2 == IF /\ W1.c["r.photography.allowhighquality"] # 0
                 /\ W1.p.bHighQualityModeIsSetup # W1.p.bHighQualityModeDesired
                 /\ (W1.p.bPausedInternally \/ ~W1.p.bAutoPause)
              THEN LET A == SetCapturedCVars(W1, QualityCVarCalls(W1.p.bHighQualityModeDesired))
                       B == IF A.c["r.photography.extreme"] # 0
                            THEN SetCapturedCVars(A, ExtremeCVarCalls(A.p.bHighQualityModeDesired))
                            ELSE A
                   IN [B EXCEPT !.p.bHighQualityModeIsSetup = B.p.bHighQualityModeDesired]
              ELSE W1
    IN ConfigureCapture(W2)

\* UpdatePostProcessing(InOutPostProcessingSettings)
UpdatePostProcessingBody(W, InOutPostProcessingSettings) ==
    LET W0 == [W EXCEPT !.r = InOutPostProcessingSettings, !.k = {}] IN
    IF W0.p.bAnselSessionActive
    THEN ConfigureRenderingSettingsForPhotography(
             DoCustomUIControls(W0, W0.p.bUIControlsNeedRebuild))
    ELSE W0

(***************************************************************************)
(* The five SDK callbacks                                                  *)
(***************************************************************************)
\* Variant that does not consult r.Photography.Allow.
AnselStartSessionCallbackIgnoresAllow(W) ==
    IF ~W.p.bForceDisallow /\ ~W.e.GIsEditor
    THEN [W EXCEPT !.p.bAnselSessionActive = TRUE,
                   !.p.bAnselSessionNewlyActive = TRUE,
                   !.p.bHighQualityModeDesired = FALSE,
                   !.r = "kAllowed"]
    ELSE [W EXCEPT !.r = "kDisallowed"]

\* AnselStartSessionCallback; W.r is the returned StartSessionStatus.
\* (The SessionConfiguration it fills in is not modelled.)
AnselStartSessionCallback(W) ==
    IF ~W.p.bForceDisallow /\ W.c["r.photography.allow"] # 0 /\ ~W.e.GIsEditor
    THEN [W EXCEPT !.p.bAnselSessionActive = TRUE,
                   !.p.bAnselSessionNewlyActive = TRUE,
                   !.p.bHighQualityModeDesired = FALSE,
                   !.r = "kAllowed"]
    ELSE [W EXCEPT !.r = "kDisallowed"]

AnselStopSessionCallback(W) ==
    IF W.p.bAnselSessionActive /\ W.p.bAnselSessionNewlyActive
    THEN [W EXCEPT !.p.bAnselSessionActive = FALSE]
    ELSE [W EXCEPT !.p.bAnselSessionWantDeactivate = TRUE]

AnselStartCaptureCallback(W, CaptureInfo) ==
    [W EXCEPT !.p.bAnselCaptureActive = TRUE,
              !.p.bAnselCaptureNewlyActive = TRUE,
              !.p.AnselCaptureInfo = CaptureInfo]

AnselStopCaptureCallback(W) ==
    [W EXCEPT !.p.bAnselCaptureActive = FALSE,
              !.p.bAnselCaptureNewlyFinished = TRUE]

AnselChangeQualityCallback(W, isHighQuality) ==
    [W EXCEPT !.p.bHighQualityModeDesired = isHighQuality]


(***************************************************************************)
(* Input sets                                                              *)
(***************************************************************************)
\* Engine state before the plugin touches it.  MyHUD tells whether the
\* player controller has a HUD object.  TimeDilation is in percent.
RunningGame ==
    [Paused |-> FALSE, TimeDilation |-> 100, MyHUD |-> TRUE, bShowHUD |-> TRUE,
     SubtitlesEnabled |-> TRUE, bEnableFading |-> TRUE,
     GAreScreenMessagesEnabled |-> TRUE, bIsCameraMoveableWhenPaused |-> FALSE]

EngineProfiles ==
    { RunningGame,
      [Paused |-> TRUE, TimeDilation |-> 50, MyHUD |-> TRUE, bShowHUD |-> FALSE,
       SubtitlesEnabled |-> FALSE, bEnableFading |-> FALSE,
       GAreScreenMessagesEnabled |-> FALSE, bIsCameraMoveableWhenPaused |-> TRUE],
      [Paused |-> FALSE, TimeDilation |-> 50, MyHUD |-> FALSE, bShowHUD |-> FALSE,
       SubtitlesEnabled |-> FALSE, bEnableFading |-> TRUE,
       GAreScreenMessagesEnabled |-> TRUE, bIsCameraMoveableWhenPaused |-> TRUE] }

\* The part of the engine record a session saves and restores.
SessionEngineState(e) ==
    [Paused |-> e.Paused, TimeDilation |-> e.TimeDilation, bShowHUD |-> e.bShowHUD,
     SubtitlesEnabled |-> e.SubtitlesEnabled, bEnableFading |-> e.bEnableFading,
     GAreScreenMessagesEnabled |-> e.GAreScreenMessagesEnabled,
     bIsCameraMoveableWhenPaused |-> e.bIsCameraMoveableWhenPaused]

\* What UpdateCamera sees of the view and the world on a frame of the
\* session specification (the world scale and FOV axis stay as configured).
FrameInputs ==
    [bSplitscreenOrStereo : BOOLEAN, WorldToMeters : {0, 100},
     FovType : {"kHorizontalFov"}, accept : {TRUE}]

\* Post-process settings the camera manager hands to UpdatePostProcessing.
PostProcessInputs ==
    { [DefaultPostProcessSettings EXCEPT !.ScreenPercentage = 50] }

\* Capture types the SDK announces: one that is super-resolution and one
\* that is stereo, so that each capture-type test goes both ways.
CaptureTypes == {"kCaptureTypeSuperResolution", "kCaptureTypeStereo"}

\* Values of r.Photography.Extreme (no code of the plugin writes it).
ExtremeValues == {0, 1}

(***************************************************************************)
(* Construction                                                            *)
(***************************************************************************)
\* The configuration ReconfigureAnsel builds in the constructor.
ConstructorConfig(this) ==
    [userPointer |-> this, callbacks |-> TRUE, fovType |-> "kHorizontalFov",
     worldToMeters |-> 100,
     translationalSpeedInWorldUnitsPerSecond |->
         PhotographyCVarDefaults["r.photography.translationspeed"],
     captureSettleLatency |-> PhotographyCVarDefaults["r.photography.settleframes"]]

\* The provider object after its constructor ran with the DLL loaded.
\* bAutoPause, bAutoPostprocess and bUIControlsNeedRebuild have no
\* initializer and can be read (by UpdatePostProcessing) before the first
\* session frame writes them: their initial values are arbitrary.  The
\* bWas... fields and fTimeDilationBeforeSession have no initializer either
\* but the first-frame setup writes them before the restoring branch or the
\* frame-2 pause reads them (SavedValuesWrittenBeforeRead), and
\* NumFramesSinceSessionStart is set to 0 by the setup before it is
\* compared; they start at a fixed value.
ProviderConstructed(uAutoPause, uAutoPostprocess, uNeedRebuild) ==
    [bAnselSessionActive |-> FALSE,
     bAnselSessionNewlyActive |-> FALSE,
     bAnselSessionWantDeactivate |-> FALSE,
     bAnselCaptureActive |-> FALSE,
     bAnselCaptureNewlyActive |-> FALSE,
     bAnselCaptureNewlyFinished |-> FALSE,
     AnselCaptureInfo |-> "kCaptureTypeSuperResolution",
     bForceDisallow |-> FALSE,
     bWasMovableCameraBeforeSession |-> FALSE,
     bWasPausedBeforeSession |-> FALSE,
     bWasShowingHUDBeforeSession |-> FALSE,
     bWereSubtitlesEnabledBeforeSession |-> FALSE,
     bWasFadingEnabledBeforeSession |-> FALSE,
     bWasScreenMessagesEnabledBeforeSession |-> FALSE,
     fTimeDilationBeforeSession |-> 0,
     bAutoPostprocess |-> uAutoPostprocess,
     bAutoPause |-> uAutoPause,
     bPausedInternally |-> FALSE,
     bHighQualityModeDesired |-> FALSE,
     bHighQualityModeIsSetup |-> FALSE,
     bHighLodDesired |-> FALSE,
     bHighLodIsSetup |-> FALSE,
     RequiredFovType |-> "kHorizontalFov",
     CurrentlyConfiguredFovType |-> "kHorizontalFov",
     RequiredWorldToMeters |-> 100,
     CurrentlyConfiguredWorldToMeters |-> 100,
     NumFramesSinceSessionStart |-> 0,
     bUIControlsNeedRebuild |-> uNeedRebuild,
     UIControls |-> {},
     UIControlValues |-> [id \in {"control_OLDSettings"} |-> FALSE]
                         @@ [id \in SliderIds |-> 0],
     UIControlRangeLower |-> << >>,
     UIControlRangeUpper |-> << >>,
     bEffectUIAllowed |-> [t \in EUIControlEffectTarget |-> TRUE],
     UEPostProcessingOriginal |-> DefaultPostProcessSettings,
     InitialCVarMap |-> << >>,
     AnselConfig |-> ConstructorConfig(1)]

\* Value of obs.preSession while no session is being followed.
NoSnapshot == [e |-> << >>, autoPause |-> 0, autoPostprocess |-> 0]

ObsInit ==
    [last |-> "constructor", calls |-> {}, ret |-> FALSE,
     needSnapshot |-> TRUE,
     preSession |-> NoSnapshot,
     firstSet |-> << >>, sessionSet |-> << >>, ended |-> FALSE,
     pauseIssued |-> 0, engineModified |-> FALSE, setupEverDone |-> FALSE,
     stopPending |-> FALSE, followCVars |-> FALSE]

\* The reference run of the pair specification: a running game with every
\* photography console variable at its default (AutoPause and
\* AutoPostprocess on).  k and r are the calls and the return value of the
\* handler that ran last.
ReferenceRun ==
    [p |-> ProviderConstructed(FALSE, FALSE, FALSE),
     e |-> [GIsEditor |-> FALSE] @@ RunningGame,
     c |-> PhotographyCVarDefaults @@ EngineCVarDefaults,
     s |-> [sessionOpen |-> FALSE, captureActive |-> FALSE,
            config |-> ConstructorConfig(1)],
     k |-> {}, r |-> FALSE]

\* Module statics and registrations once StartupModule loaded the DLL and
\* CreateCameraPhotography built provider object 1.
ModuleWithProvider ==
    [started |-> TRUE, bAnselDLLLoaded |-> TRUE,
     objects |-> [i \in 1..MaxProviders |-> IF i = 1 THEN "alive" ELSE "none"],
     sinks |-> {1}, configs |-> {1}, held |-> 1,
     LastTranslationSpeed |-> -1, LastSettleFrames |-> -1]

\* Initial states: the game is running, the DLL is loaded, one provider
\* object exists and no session is open.  profiles: engine states to start
\* from; editors: values of GIsEditor; missings: sets of console variables
\* the build does not have; extremes: values of r.Photography.Extreme.
InitWith(profiles, editors, missings, extremes, followCVars) ==
    /\ \E uAutoPause \in BOOLEAN, uAutoPostprocess \in BOOLEAN, uNeedRebuild \in BOOLEAN :
          provider = ProviderConstructed(uAutoPause, uAutoPostprocess, uNeedRebuild)
    /\ \E prof \in profiles, ed \in editors :
          engine = [GIsEditor |-> ed] @@ prof
    /\ \E missing \in missings, x \in extremes :
          console = [PhotographyCVarDefaults EXCEPT !["r.photography.extreme"] = x]
                    @@ Restrict(EngineCVarDefaults, DOMAIN EngineCVarDefaults \ missing)
    /\ sdk = [sessionOpen |-> FALSE, captureActive |-> FALSE,
              config |-> ConstructorConfig(1)]
    /\ frame = [next |-> "UpdateCamera", pc |-> "idle"]
    /\ obs = [ObsInit EXCEPT !.followCVars = followCVars]
    /\ module = ModuleWithProvider
    /\ twin = ReferenceRun
    /\ camera = CameraStatics

\* Session specification: every engine profile, game or editor, all
\* console variables present, r.Photography.Extreme at its default.
Init == InitWith(EngineProfiles, BOOLEAN, {{}}, {0}, FALSE)

(***************************************************************************)
(* Observations kept for the properties (not program state)                *)
(***************************************************************************)
\* name: the handler that ran; W2: the world it left; new: the calls it made.
\*   ended          the handler ran the restoring branch of UpdateCamera
\*   needSnapshot   no session frame was seen since the last restoring branch
\*   preSession     engine state and AutoPause / AutoPostprocess values just
\*                  before the first UpdateCamera frame of the current session
\*   firstSet       for each console variable the plugin wrote through
\*                  SetCapturedCVar... since the session started, the value
\*                  it had before the first handler of the session that
\*                  wrote it (a session starts with an allowed start
\*                  callback that finds the plugin inactive with no stop
\*                  waiting to be processed)
\*   sessionSet     firstSet as it was when the restoring branch ran
\*   followCVars    whether firstSet is kept (console-variable specification)
\*   pauseIssued    SetPause(true) calls since the last first-frame setup
\*   engineModified a first-frame setup ran and no restoring branch since
\*   stopPending    a stop-session callback found the session active and
\*                  already acted on by UpdateCamera, and UpdateCamera has
\*                  not been called since
Observe(name, W2, new) ==
    LET ended == "OnPhotographySessionEnd" \in new
        setup == "OnPhotographySessionStart" \in new
        activeFrame == name = "UpdateCamera" /\ provider.bAnselSessionActive
        freshStart == /\ name = "AnselStartSessionCallback" /\ W2.r = "kAllowed"
                      /\ ~provider.bAnselSessionActive
                      /\ ~provider.bAnselSessionWantDeactivate
    IN [last |-> name, calls |-> W2.k, ret |-> W2.r, ended |-> ended,
        needSnapshot |-> IF ended THEN TRUE
                         ELSE IF activeFrame THEN FALSE ELSE obs.needSnapshot,
        preSession |-> IF activeFrame /\ obs.needSnapshot
                       THEN [e |-> SessionEngineState(engine),
                             autoPause |-> console["r.photography.autopause"],
                             autoPostprocess |-> console["r.photography.autopostprocess"]]
                       ELSE IF obs.needSnapshot THEN NoSnapshot ELSE obs.preSession,
        followCVars |-> obs.followCVars,
        firstSet |-> IF ended \/ freshStart \/ ~obs.followCVars THEN << >>
                     ELSE [n \in DOMAIN obs.firstSet \cup W2.t |->
                             IF n \in DOMAIN obs.firstSet
                             THEN obs.firstSet[n] ELSE console[n]],
        sessionSet |-> IF ended THEN obs.firstSet ELSE << >>,
        pauseIssued |-> IF setup THEN 0
                        ELSE IF "SetPause(true)" \in new /\ obs.pauseIssued < 2
                             THEN obs.pauseIssued + 1 ELSE obs.pauseIssued,
        engineModified |-> IF ended THEN FALSE
                           ELSE IF setup THEN TRUE ELSE obs.engineModified,
        setupEverDone |-> obs.setupEverDone \/ setup,
        stopPending |-> IF name = "UpdateCamera" THEN FALSE
                        ELSE IF /\ sdk.sessionOpen /\ ~W2.s.sessionOpen
                                /\ provider.bAnselSessionActive
                                /\ ~provider.bAnselSessionNewlyActive
                             THEN TRUE ELSE obs.stopPending]

\* The effect of a handler, or of a part of one, on the program state.
\* next: the entry point the frame loop calls next; pc: where UpdateCamera
\* stands ("idle" when it is not running).
CommitRun(name, W2, next, pc) ==
    /\ provider' = W2.p
    /\ engine' = W2.e
    /\ console' = W2.c
    /\ sdk' = W2.s
    /\ frame' = [next |-> next, pc |-> pc]
    /\ obs' = Observe(name, W2, W2.k)
    /\ UNCHANGED <<module, camera>>

CommitAt(name, W2, next, pc) == CommitRun(name, W2, next, pc) /\ UNCHANGED twin

Commit(name, W2, next) == CommitAt(name, W2, next, frame.pc)


(***************************************************************************)
(* Actions of the session specification.  The engine calls UpdateCamera    *)
(* and then UpdatePostProcessing once per frame; the SDK callbacks and the *)
(* Blueprint setters arrive between any two of these calls.  The SDK       *)
(* starts a session only when it has none open, stops only a session it    *)
(* has open, and runs captures inside an open session.                     *)
(***************************************************************************)
UpdateCameraWith(inputs) ==
    /\ frame.next = "UpdateCamera" /\ frame.pc = "idle"
    /\ \E in \in inputs :
          Commit("UpdateCamera", UpdateCameraBody(World, in), "UpdatePostProcessing")

UpdateCamera == UpdateCameraWith(FrameInputs)

UpdatePostProcessingWith(inputs) ==
    /\ frame.next = "UpdatePostProcessing" /\ frame.pc = "idle"
    /\ \E pp \in inputs :
          Commit("UpdatePostProcessing", UpdatePostProcessingBody(World, pp),
                 "UpdateCamera")

UpdatePostProcessing == UpdatePostProcessingWith(PostProcessInputs)

StartSessionCallback ==
    /\ ~sdk.sessionOpen
    /\ LET W2 == AnselStartSessionCallback(World)
       IN Commit("AnselStartSessionCallback",
                 [W2 EXCEPT !.s.sessionOpen = (W2.r = "kAllowed")], frame.next)

StopSessionCallback ==
    /\ sdk.sessionOpen /\ ~sdk.captureActive
    /\ LET W2 == AnselStopSessionCallback(World)
       IN Commit("other",
                 [W2 EXCEPT !.s.sessionOpen = FALSE], frame.next)

StartCaptureWith(types) ==
    /\ sdk.sessionOpen /\ ~sdk.captureActive
    /\ \E CaptureInfo \in types :
         LET W2 == AnselStartCaptureCallback(World, CaptureInfo)
         IN Commit("other",
                   [W2 EXCEPT !.s.captureActive = TRUE], frame.next)

StartCaptureCallback == StartCaptureWith(CaptureTypes)

StopCaptureCallback ==
    /\ sdk.captureActive
    /\ LET W2 == AnselStopCaptureCallback(World)
       IN Commit("other",
                 [W2 EXCEPT !.s.captureActive = FALSE], frame.next)

ChangeQualityCallback ==
    /\ sdk.sessionOpen
    /\ \E isHighQuality \in BOOLEAN :
         Commit("other",
                AnselChangeQualityCallback(World, isHighQuality), frame.next)

\* UAnselFunctionLibrary setters: CVar->Set(b ? 1 : 0)
SetCVarFromBlueprint(W, name, b) == [W EXCEPT !.c[name] = IF b THEN 1 ELSE 0]

SetIsPhotographyAllowed ==
    \E b \in BOOLEAN :
       Commit("other",
              SetCVarFromBlueprint(World, "r.photography.allow", b), frame.next)

SetAutoPostprocess ==
    \E b \in BOOLEAN :
       Commit("other",
              SetCVarFromBlueprint(World, "r.photography.autopostprocess", b), frame.next)

SetAutoPause ==
    \E b \in BOOLEAN :
       Commit("other",
              SetCVarFromBlueprint(World, "r.photography.autopause", b), frame.next)

Next ==
    \/ UpdateCamera
    \/ UpdatePostProcessing
    \/ StartSessionCallback
    \/ StopSessionCallback
    \/ StartCaptureCallback
    \/ StopCaptureCallback
    \/ SetIsPhotographyAllowed
    \/ SetAutoPostprocess
    \/ SetAutoPause

Spec == Init /\ [][Next]_vars

\* The restoring branch, which reads the bWas... fields and
\* fTimeDilationBeforeSession, runs only after a first-frame setup wrote them.
SavedValuesWrittenBeforeRead == obs.ended => obs.setupEverDone

(***************************************************************************)
(* Allow specification: what decides whether a session may start.  One     *)
(* engine profile, game and editor, frames with and without splitscreen    *)
(* or stereo, the start and stop callbacks and SetIsPhotographyAllowed.    *)
(***************************************************************************)
InitAllow == InitWith({RunningGame}, BOOLEAN, {{}}, {0}, FALSE)

NextAllow ==
    \/ UpdateCamera
    \/ UpdatePostProcessing
    \/ StartSessionCallback
    \/ StopSessionCallback
    \/ SetIsPhotographyAllowed

SpecAllow == InitAllow /\ [][NextAllow]_vars

\* UAnselFunctionLibrary::IsPhotographyAllowed; r is the value returned.
IsPhotographyAllowed(W) ==
    [W EXCEPT !.r = /\ FindConsoleVariable(W, "r.photography.allow")
                    /\ W.c["r.photography.allow"] # 0]

\* Variant that writes 1 whatever the argument.
SetIsPhotographyAllowedIgnoringArgument(W, bIsPhotographyAllowed) ==
    IF FindConsoleVariable(W, "r.photography.allow")
    THEN SetCVarFromBlueprint(W, "r.photography.allow", TRUE)
    ELSE W

\* UAnselFunctionLibrary::SetIsPhotographyAllowed(bIsPhotographyAllowed).
SetIsPhotographyAllowedTo(W, bIsPhotographyAllowed) ==
    IF FindConsoleVariable(W, "r.photography.allow")
    THEN SetCVarFromBlueprint(W, "r.photography.allow", bIsPhotographyAllowed)
    ELSE W

\* The two Blueprint accessors as calls of their own.  For the setter the
\* observation's ret holds the argument it was called with.
BlueprintIsPhotographyAllowed ==
    Commit("IsPhotographyAllowed", IsPhotographyAllowed(World), frame.next)

BlueprintSetIsPhotographyAllowed ==
    \E b \in BOOLEAN :
       Commit("SetIsPhotographyAllowed",
              [SetIsPhotographyAllowedTo(World, b) EXCEPT !.r = b], frame.next)

NextAllowFlag ==
    \/ UpdateCamera
    \/ UpdatePostProcessing
    \/ StartSessionCallback
    \/ StopSessionCallback
    \/ BlueprintIsPhotographyAllowed
    \/ BlueprintSetIsPhotographyAllowed

SpecAllowFlag == InitAllow /\ [][NextAllowFlag]_vars

(***************************************************************************)
(* Console-variable specification: one engine profile, builds with and     *)
(* without the optional console variables, both values of                  *)
(* r.Photography.Extreme, and the quality callback.                        *)
(***************************************************************************)
InitCVars == InitWith({RunningGame}, {FALSE}, {{}, OptionalCVars}, ExtremeValues, TRUE)

\* A frame of a single-view game whose world scale stays as configured.
SteadyFrameInputs ==
    {in \in FrameInputs : ~in.bSplitscreenOrStereo /\ in.WorldToMeters = 100}

UpdateCameraSteady == UpdateCameraWith(SteadyFrameInputs)

StartSuperResolutionCapture == StartCaptureWith({"kCaptureTypeSuperResolution"})

NextCVars ==
    \/ UpdateCameraSteady
    \/ UpdatePostProcessing
    \/ StartSessionCallback
    \/ StopSessionCallback
    \/ StartSuperResolutionCapture
    \/ StopCaptureCallback
    \/ ChangeQualityCallback

SpecCVars == InitCVars /\ [][NextCVars]_vars

(***************************************************************************)
(* Interleaved specification: the SDK callbacks run on another thread and  *)
(* may arrive while UpdateCamera is inside its bAnselSessionNewlyActive    *)
(* branch, after the first-frame setup and before the statement            *)
(* bAnselSessionNewlyActive = false.  UpdateCamera is therefore two steps  *)
(* on the first frame of a session and one step on every other frame.      *)
(***************************************************************************)
InitInterleaved == InitWith({RunningGame}, {FALSE}, {{}}, {0}, FALSE)

\* UpdateCamera from its first statement to the end of the call, or, on
\* the first frame of a session, to the end of the first-frame setup.
UpdateCameraEnter ==
    /\ frame.next = "UpdateCamera" /\ frame.pc = "idle"
    /\ \E in \in SteadyFrameInputs :
         LET W1 == UC_Preamble(World, in)
             W2 == UC_Head(W1)
         IN IF /\ W1.p.bAnselSessionActive
               /\ ~W2.p.bAnselSessionWantDeactivate
               /\ W2.p.bAnselSessionNewlyActive
            THEN CommitAt("UpdateCamera", UC_FirstFrameSetup(W2),
                          "UpdateCamera", "newlyActive")
            ELSE CommitAt("UpdateCamera", UpdateCameraBody(World, in),
                          "UpdatePostProcessing", "idle")

\* The rest of the first frame: bAnselSessionNewlyActive = false, the
\* frame-2 pause test, the view conversion and the capture tail.
UpdateCameraLeave ==
    /\ frame.pc = "newlyActive"
    /\ CommitAt("UpdateCamera",
                UC_CaptureTail(UC_PauseAndView(UC_FirstFrameDone(World))),
                "UpdatePostProcessing", "idle")

NextInterleaved ==
    \/ UpdateCameraEnter
    \/ UpdateCameraLeave
    \/ UpdatePostProcessing
    \/ StartSessionCallback
    \/ StopSessionCallback
    \/ StartSuperResolutionCapture
    \/ StopCaptureCallback
    \/ ChangeQualityCallback

SpecInterleaved == InitInterleaved /\ [][NextInterleaved]_vars

(***************************************************************************)
(* Module specification: FAnselModule start-up and shutdown, creation and  *)
(* destruction of provider objects, the console-variable sink.             *)
(*   module.objects[i]  "none", "alive" or "destroyed"                     *)
(*   module.sinks       objects whose CVarDelegate is a registered sink    *)
(*   module.configs     objects whose ansel::Configuration is allocated    *)
(*   module.held        the object the engine holds (0: none)              *)
(*   module.LastTranslationSpeed, LastSettleFrames: statics of the sink    *)
(* provider is the record of the object constructed last.                  *)
(***************************************************************************)
\* ansel::isAnselAvailable
isAnselAvailable(W, available) ==
    [Call(W, "ansel::isAnselAvailable") EXCEPT !.r = available]

\* IsSupported: bAnselDLLLoaded && ansel::isAnselAvailable()
IsSupported(W, available) ==
    IF W.m.bAnselDLLLoaded THEN isAnselAvailable(W, available)
    ELSE [W EXCEPT !.r = FALSE]

\* Variant that registers and configures whether or not the DLL is loaded.
ProviderConstructorUnguarded(W, this, fields) ==
    LET W1 == [W EXCEPT !.p = [fields EXCEPT !.CurrentlyConfiguredWorldToMeters = 0],
                        !.m.objects[this] = "alive"]
        W2 == [W1 EXCEPT !.m.configs = @ \cup {this},
                         !.m.sinks = @ \cup {this}]
    IN ReconfigureAnsel(W2, this, TRUE)

\* The constructor of provider object `this`; fields: the members as the
\* initializers (and the arbitrary values of the others) leave them.
ProviderConstructor(W, this, fields) ==
    LET W1 == [W EXCEPT !.p = [fields EXCEPT !.CurrentlyConfiguredWorldToMeters = 0],
                        !.m.objects[this] = "alive"]
    IN IF W1.m.bAnselDLLLoaded
       THEN LET W2 == [W1 EXCEPT !.m.configs = @ \cup {this},
                                 !.m.sinks = @ \cup {this}]
            IN ReconfigureAnsel(W2, this, TRUE)
       ELSE W1

\* DeconfigureAnsel: the callbacks and userPointer are nulled.
DeconfigureAnsel(W) ==
    setConfiguration(W, [W.p.AnselConfig EXCEPT !.userPointer = 0,
                                                !.callbacks = FALSE], TRUE)

\* The destructor of provider object `this`.
ProviderDestructor(W, this) ==
    LET W1 == IF W.m.bAnselDLLLoaded
              THEN LET A == [W EXCEPT !.m.sinks = @ \ {this}]
                       B == DeconfigureAnsel(A)
                   IN [B EXCEPT !.m.configs = @ \ {this}]
              ELSE W
    IN [W1 EXCEPT !.m.objects[this] = "destroyed"]

\* FAnselModule::CreateCameraPhotography; W.r is the object returned
\* (0: a null pointer).
CreateCameraPhotography(W, this, fields, available) ==
    LET W1 == ProviderConstructor(W, this, fields)
        W2 == IsSupported(W1, available)
    IN IF W2.r
       THEN [W2 EXCEPT !.r = this, !.m.held = this]
       ELSE [ProviderDestructor(W2, this) EXCEPT !.r = 0]

\* The lambda registered as console-variable sink, run for object `this`;
\* accept: whether the ansel::setConfiguration it may call succeeds.
CVarSinkStatus(W, this, accept) ==
    LET ThisTranslationSpeed == W.c["r.photography.translationspeed"]
        ThisSettleFrames == W.c["r.photography.settleframes"]
    IN IF \/ ThisTranslationSpeed # W.m.LastTranslationSpeed
          \/ ThisSettleFrames # W.m.LastSettleFrames
       THEN [ReconfigureAnsel(W, this, accept) EXCEPT
                !.m.LastTranslationSpeed = ThisTranslationSpeed,
                !.m.LastSettleFrames = ThisSettleFrames]
       ELSE W

\* The sink when the SDK accepts the configuration.
CVarSink(W, this) == CVarSinkStatus(W, this, TRUE)

\* Values the Blueprint setters are called with.
SettleFrameValues == {10, 20}
TranslationSpeedValues == {300, 600}

NoProvider == ProviderConstructed(FALSE, FALSE, FALSE)

InitModule ==
    /\ provider = NoProvider
    /\ engine = [GIsEditor |-> FALSE] @@ RunningGame
    /\ console = PhotographyCVarDefaults @@ EngineCVarDefaults
    /\ sdk = [sessionOpen |-> FALSE, captureActive |-> FALSE,
              config |-> [ConstructorConfig(0) EXCEPT !.callbacks = FALSE]]
    /\ frame = [next |-> "UpdateCamera", pc |-> "idle"]
    /\ obs = ObsInit
    /\ module = [started |-> FALSE, bAnselDLLLoaded |-> FALSE,
                 objects |-> [i \in 1..MaxProviders |-> "none"],
                 sinks |-> {}, configs |-> {}, held |-> 0,
                 LastTranslationSpeed |-> -1, LastSettleFrames |-> -1]
    /\ twin = ReferenceRun
    /\ camera = CameraStatics

\* The effect of a module-level operation.
CommitModule(name, W2) ==
    /\ provider' = W2.p
    /\ console' = W2.c
    /\ sdk' = W2.s
    /\ module' = W2.m
    /\ obs' = [ObsInit EXCEPT !.last = name, !.calls = W2.k, !.ret = W2.r]
    /\ UNCHANGED <<engine, frame, twin, camera>>

\* StartupModule: GetDllHandle succeeds or fails.
StartupModule ==
    /\ ~module.started
    /\ \E loaded \in BOOLEAN :
          CommitModule("StartupModule",
                       [World EXCEPT !.m.started = TRUE,
                                     !.m.bAnselDLLLoaded = loaded])

ShutdownModule ==
    /\ module.started
    /\ CommitModule("ShutdownModule",
                    [World EXCEPT !.m.started = FALSE,
                                  !.m.bAnselDLLLoaded = FALSE])

\* The engine asks the module for a provider while it holds none.
CreateProvider ==
    /\ module.started /\ module.held = 0
    /\ \E this \in 1..MaxProviders :
          /\ module.objects[this] = "none"
          /\ \A i \in 1..(this - 1) : module.objects[i] # "none"
          /\ \E uAutoPause \in BOOLEAN, uAutoPostprocess \in BOOLEAN,
                uNeedRebuild \in BOOLEAN, available \in BOOLEAN :
                CommitModule("CreateCameraPhotography",
                    CreateCameraPhotography(World, this,
                        ProviderConstructed(uAutoPause, uAutoPostprocess, uNeedRebuild),
                        available))

\* The engine drops its reference: the provider is destroyed, before or
\* after ShutdownModule.
DestroyProvider ==
    /\ module.held # 0
    /\ CommitModule("~FNVAnselCameraPhotographyPrivate",
                    [ProviderDestructor(World, module.held) EXCEPT !.m.held = 0])

SetSettleFrames ==
    \E NumSettleFrames \in SettleFrameValues :
       CommitModule("SetSettleFrames",
                    [World EXCEPT !.c["r.photography.settleframes"] = NumSettleFrames])

SetCameraMovementSpeed ==
    \E TranslationSpeed \in TranslationSpeedValues :
       CommitModule("SetCameraMovementSpeed",
                    [World EXCEPT !.c["r.photography.translationspeed"] = TranslationSpeed])

\* The console manager runs the sink of a live object while the DLL is
\* loaded.  (A sink left registered by a destroyed object, or run after
\* the DLL was freed, would use a dangling pointer; such runs are left out.)
RunCVarSink ==
    \E this \in module.sinks :
       /\ module.objects[this] = "alive"
       /\ module.bAnselDLLLoaded
       /\ CommitModule("CVarSink", CVarSink(World, this))

NextModule ==
    \/ StartupModule
    \/ ShutdownModule
    \/ CreateProvider
    \/ DestroyProvider
    \/ SetSettleFrames
    \/ SetCameraMovementSpeed
    \/ RunCVarSink

SpecModule == InitModule /\ [][NextModule]_vars

(***************************************************************************)
(* Configuration specification: everything that calls ReconfigureAnsel     *)
(* after construction.  One provider; frames whose world scale and FOV     *)
(* axis change; sessions; the settle-frames setter and the console-variable *)
(* sink, which the console manager runs whether or not a session is        *)
(* active; ansel::setConfiguration succeeds or fails.                      *)
(***************************************************************************)
ConfigFrameInputs ==
    [bSplitscreenOrStereo : {FALSE}, WorldToMeters : {0, 50},
     FovType : {"kHorizontalFov", "kVerticalFov"}, accept : BOOLEAN]

InitConfig == InitWith({RunningGame}, {FALSE}, {{}}, {0}, FALSE)

RunCVarSinkAnyStatus ==
    \E this \in module.sinks, accept \in BOOLEAN :
       /\ module.objects[this] = "alive"
       /\ module.bAnselDLLLoaded
       /\ CommitModule("CVarSink", CVarSinkStatus(World, this, accept))

NextConfig ==
    \/ UpdateCameraWith(ConfigFrameInputs)
    \/ UpdatePostProcessing
    \/ StartSessionCallback
    \/ StopSessionCallback
    \/ SetSettleFrames
    \/ RunCVarSinkAnyStatus

SpecConfig == InitConfig /\ [][NextConfig]_vars

(***************************************************************************)
(* UI specification: the effect-tweak sliders of the photography UI.       *)
(* Sessions start and stop, the camera manager hands in post-process       *)
(* settings with and without the tweakable effects, Blueprint code shows   *)
(* and hides effects at any time, and the player moves sliders in the      *)
(* overlay.  ansel::UserControlDesc has no initializer in the provider, so  *)
(* a control id may read as in use before the first rebuild.               *)
(***************************************************************************)
\* Settings with every tweakable effect on, and with none.
UIPostProcessInputs ==
    { [DefaultPostProcessSettings EXCEPT
          !.val = [f \in PostProcessFields |->
                     CASE f = "DepthOfFieldFstop" -> 4
                       [] f = "DepthOfFieldFocalDistance" -> 100
                       [] f = "DepthOfFieldSensorWidth" -> 240
                       [] f = "DepthOfFieldDepthBlurAmount" -> 1000000
                       [] f = "DepthOfFieldDepthBlurRadius" -> 2
                       [] f = "BloomIntensity" -> 68
                       [] f = "BloomSizeScale" -> 400
                       [] f = "SceneFringeIntensity" -> 100
                       [] OTHER -> 0]],
      DefaultPostProcessSettings }

\* Control ids that may read as in use when the provider is constructed.
UninitializedControls == {{}, {"control_dofscale"}}

\* The effects Blueprint code shows and hides (MotionBlur has no slider).
HiddenTargets == {"Bloom", "DepthOfField", "ChromaticAberration"}

\* The slider the player moves.
MovedSliders == {"control_bloomintensity"}

InitUI ==
    /\ \E uAutoPause \in BOOLEAN, uAutoPostprocess \in BOOLEAN, uNeedRebuild \in BOOLEAN,
          uControls \in UninitializedControls :
          provider = [ProviderConstructed(uAutoPause, uAutoPostprocess, uNeedRebuild)
                         EXCEPT !.UIControls = uControls]
    /\ engine = [GIsEditor |-> FALSE] @@ RunningGame
    /\ \E autoPostprocess \in {0, 1} :
          console = [PhotographyCVarDefaults EXCEPT
                        !["r.photography.autopostprocess"] = autoPostprocess]
                    @@ EngineCVarDefaults
    /\ sdk = [sessionOpen |-> FALSE, captureActive |-> FALSE,
              config |-> ConstructorConfig(1)]
    /\ frame = [next |-> "UpdateCamera", pc |-> "idle"]
    /\ obs = ObsInit
    /\ module = ModuleWithProvider
    /\ twin = ReferenceRun
    /\ camera = CameraStatics

UpdatePostProcessingUI == UpdatePostProcessingWith(UIPostProcessInputs)

\* UAnselFunctionLibrary::SetUIControlVisibility, forwarded by the
\* photography manager to the provider.
BlueprintSetUIControlVisibility ==
    \E UIControlTarget \in HiddenTargets, bIsVisible \in BOOLEAN :
       Commit("SetUIControlVisibility",
              SetUIControlVisibility(World, UIControlTarget, bIsVisible), frame.next)

\* The callback DeclareSlider installs: the SDK reports the new position
\* of a registered slider, here the top of its range (float_val = 1).
UserControlCallback ==
    /\ sdk.sessionOpen
    /\ \E id \in MovedSliders \cap provider.UIControls :
          Commit("other",
                 [World EXCEPT !.p.UIControlValues[id] =
                      provider.UIControlRangeUpper[id] - provider.UIControlRangeLower[id]],
                 frame.next)

NextUI ==
    \/ UpdateCameraSteady
    \/ UpdatePostProcessingUI
    \/ StartSessionCallback
    \/ StopSessionCallback
    \/ BlueprintSetUIControlVisibility
    \/ UserControlCallback

SpecUI == InitUI /\ [][NextUI]_vars

(***************************************************************************)
(* Camera-constraint specification: the two utilities of                   *)
(* UAnselFunctionLibrary that constrain the photography camera.  They are  *)
(* functions of their arguments (and, for the geometry constraint, of one  *)
(* static and the collision world).  Lengths are whole numbers of 0.00001  *)
(* world units, so that the engine's UE_KINDA_SMALL_NUMBER (0.0001) is 10.  *)
(* A location the code computes by scaling a vector is kept exact as       *)
(* Origin + Direction * ScaleNum / sqrt(ScaleDenSq); the rounding of the    *)
(* float arithmetic is not modelled.                                       *)
(***************************************************************************)
UE_KINDA_SMALL_NUMBER == 10

ZeroVector == <<0, 0, 0>>

VecAdd(a, b) == <<a[1] + b[1], a[2] + b[2], a[3] + b[3]>>
VecSub(a, b) == <<a[1] - b[1], a[2] - b[2], a[3] - b[3]>>
DotProduct(a, b) == a[1] * b[1] + a[2] * b[2] + a[3] * b[3]
SizeSquared(v) == DotProduct(v, v)

\* A location that is exactly the point p.
At(p) == [Origin |-> p, Direction |-> ZeroVector, ScaleNum |-> 1, ScaleDenSq |-> 1]

\* Variant that clamps without the small-size shortcut.
GetClampedToMaxSizeNoShortcut(V, MaxSize) ==
    IF SizeSquared(V) > MaxSize * MaxSize
    THEN [Direction |-> V, ScaleNum |-> MaxSize, ScaleDenSq |-> SizeSquared(V)]
    ELSE [Direction |-> V, ScaleNum |-> 1, ScaleDenSq |-> 1]

\* FVector::GetClampedToMaxSize(MaxSize) of the engine: the zero vector when
\* MaxSize < UE_KINDA_SMALL_NUMBER; V * (MaxSize * InvSqrt(SizeSquared))
\* when V is longer than MaxSize; V otherwise.
GetClampedToMaxSize(V, MaxSize) ==
    IF MaxSize < UE_KINDA_SMALL_NUMBER
    THEN [Direction |-> ZeroVector, ScaleNum |-> 1, ScaleDenSq |-> 1]
    ELSE IF SizeSquared(V) > MaxSize * MaxSize
         THEN [Direction |-> V, ScaleNum |-> MaxSize, ScaleDenSq |-> SizeSquared(V)]
         ELSE [Direction |-> V, ScaleNum |-> 1, ScaleDenSq |-> 1]

\* UAnselFunctionLibrary::ConstrainCameraByDistance; the value is
\* OutCameraLocation.
ConstrainCameraByDistance(NewCameraLocation, PreviousCameraLocation, OriginalCameraLocation, MaxDistance) ==
    IF MaxDistance < 0
    THEN At(NewCameraLocation)
    ELSE LET MovementVector ==
                 GetClampedToMaxSize(VecSub(NewCameraLocation, OriginalCameraLocation),
                                     MaxDistance)
         IN [Origin |-> OriginalCameraLocation] @@ MovementVector

\* Camera locations and distance limits the utilities are called with:
\* points less and more than UE_KINDA_SMALL_NUMBER apart, limits that are
\* negative, zero, below and above UE_KINDA_SMALL_NUMBER.
CameraLocations == {<<0, 0, 0>>, <<3, 0, 0>>, <<30, 40, 0>>, <<0, 0, -20>>}
MaxDistances == {-10, 0, 5, 10, 25, 50, 100}

\* obs.ret while a utility has been called with arguments and has not
\* returned (Out is the caller's variable, holding any location).
InitDistance ==
    /\ provider = NoProvider
    /\ engine = [GIsEditor |-> FALSE] @@ RunningGame
    /\ console = PhotographyCVarDefaults @@ EngineCVarDefaults
    /\ sdk = [sessionOpen |-> FALSE, captureActive |-> FALSE,
              config |-> [ConstructorConfig(0) EXCEPT !.callbacks = FALSE]]
    /\ frame = [next |-> "UpdateCamera", pc |-> "idle"]
    /\ module = [started |-> FALSE, bAnselDLLLoaded |-> FALSE,
                 objects |-> [i \in 1..MaxProviders |-> "none"],
                 sinks |-> {}, configs |-> {}, held |-> 0,
                 LastTranslationSpeed |-> -1, LastSettleFrames |-> -1]
    /\ twin = ReferenceRun
    /\ camera = CameraStatics
    /\ \E New \in CameraLocations, Previous \in CameraLocations,
          Original \in CameraLocations, MaxDistance \in MaxDistances :
          obs = [ObsInit EXCEPT
                    !.last = "call",
                    !.ret = [New |-> New, Previous |-> Previous, Original |-> Original,
                             MaxDistance |-> MaxDistance, Out |-> At(Previous)]]

\* The call returns.
ConstrainCameraByDistanceReturns ==
    /\ obs.last = "call"
    /\ obs' = [obs EXCEPT
                 !.last = "ConstrainCameraByDistance",
                 !.ret.Out = ConstrainCameraByDistance(obs.ret.New, obs.ret.Previous,
                                                       obs.ret.Original,
                                                       obs.ret.MaxDistance)]
    /\ UNCHANGED <<provider, engine, console, sdk, frame, module, twin, camera>>

NextDistance == ConstrainCameraByDistanceReturns

SpecDistance == InitDistance /\ [][NextDistance]_vars

\* FVector::IsNearlyZero with the default tolerance UE_KINDA_SMALL_NUMBER.
IsNearlyZero(v) ==
    \A i \in 1..3 : v[i] <= UE_KINDA_SMALL_NUMBER /\ -v[i] <= UE_KINDA_SMALL_NUMBER

\* UWorld::OverlapAnyTestByChannel at Pos with one of the two spheres.
OverlapAnyTestByChannel(cam, Pos, Shape) ==
    IF Shape = "CameraCollisionShape" THEN Pos \in cam.Blocking
    ELSE Pos \in cam.Confined

\* Variant that sweeps even when the tracked open-space point is occupied.
SweptLocationIgnoringOverlap(Overlaps, NewCameraLocation, Hit) ==
    IF Hit.bBlockingHit THEN Hit.Location ELSE NewCameraLocation

\* The overlap test and the sweep of ConstrainCameraByGeometry: the new
\* location when the tracked open-space point is occupied or the sweep hits
\* nothing, else the location of the hit.  Hit is the result of
\* UWorld::SweepSingleByChannel.
SweptLocation(Overlaps, NewCameraLocation, Hit) ==
    IF Overlaps THEN NewCameraLocation
    ELSE IF Hit.bBlockingHit THEN Hit.Location ELSE NewCameraLocation

\* The update of the tracked open-space point at the end of
\* ConstrainCameraByGeometry.
TrackOpenSpace(cam, Last, Out, PreviousCameraLocation) ==
    LET OpenSpaceCheckPos == VecAdd(Last, VecSub(Out, PreviousCameraLocation))
    IN  IF ~OverlapAnyTestByChannel(cam, OpenSpaceCheckPos, "OpenSpaceCollisionShape")
        THEN OpenSpaceCheckPos
        ELSE IF ~OverlapAnyTestByChannel(cam, Out, "OpenSpaceCollisionShape")
             THEN Out
             ELSE Last

\* UAnselFunctionLibrary::ConstrainCameraByGeometry.  Out is
\* OutCameraLocation and cam the camera-constraint state it leaves; Tracked
\* is the tracked open-space point the call works with, Overlaps whether
\* that point is occupied, Rejected whether the direction test replaced the
\* location.
ConstrainCameraByGeometry(cam, CameraRadius, NewCameraLocation, PreviousCameraLocation, OriginalCameraLocation, Hit) ==
    IF CameraRadius < 0
    THEN [Out |-> NewCameraLocation, cam |-> cam,
          Tracked |-> cam.LastUnconfinedScreenshotCamera,
          Overlaps |-> FALSE, Rejected |-> FALSE]
    ELSE
    LET Last == IF \/ ~cam.bInitialized
                   \/ PreviousCameraLocation = OriginalCameraLocation
                THEN OriginalCameraLocation
                ELSE cam.LastUnconfinedScreenshotCamera
        CastDirection == VecSub(NewCameraLocation, Last)
        Overlaps == OverlapAnyTestByChannel(cam, Last, "CameraCollisionShape")
        Swept == SweptLocation(Overlaps, NewCameraLocation, Hit)
        Rejected == DotProduct(VecSub(Swept, PreviousCameraLocation),
                               VecSub(NewCameraLocation, PreviousCameraLocation)) <= 0
        Out == IF Rejected THEN PreviousCameraLocation ELSE Swept
    IN  IF IsNearlyZero(CastDirection)
        THEN [Out |-> NewCameraLocation,
              cam |-> [cam EXCEPT !.LastUnconfinedScreenshotCamera = Last,
                                 !.bInitialized = TRUE],
              Tracked |-> Last, Overlaps |-> Overlaps, Rejected |-> FALSE]
        ELSE [Out |-> Out,
              cam |-> [cam EXCEPT !.LastUnconfinedScreenshotCamera =
                                     TrackOpenSpace(cam, Last, Out, PreviousCameraLocation),
                                 !.bInitialized = TRUE],
              Tracked |-> Last, Overlaps |-> Overlaps, Rejected |-> Rejected]

\* Number of ConstrainCameraByGeometry calls followed.
MaxCalls == 2

\* Results a sweep can report.
HitResults ==
    {[bBlockingHit |-> FALSE, Location |-> <<0, 0, 0>>]}
    \cup {[bBlockingHit |-> TRUE, Location |-> <<15, 20, 0>>]}
OriginalLocations == {<<0, 0, 0>>, <<3, 0, 0>>}

InitGeometry ==
    /\ provider = NoProvider
    /\ engine = [GIsEditor |-> FALSE] @@ RunningGame
    /\ console = PhotographyCVarDefaults @@ EngineCVarDefaults
                    @@ [n \in {"r.photography.constrain.camerasize"} |-> 14]
    /\ sdk = [sessionOpen |-> FALSE, captureActive |-> FALSE,
              config |-> [ConstructorConfig(0) EXCEPT !.callbacks = FALSE]]
    /\ frame = [next |-> "UpdateCamera", pc |-> "idle"]
    /\ module = [started |-> FALSE, bAnselDLLLoaded |-> FALSE,
                 objects |-> [i \in 1..MaxProviders |-> "none"],
                 sinks |-> {}, configs |-> {}, held |-> 0,
                 LastTranslationSpeed |-> -1, LastSettleFrames |-> -1]
    /\ twin = ReferenceRun
    /\ obs = ObsInit
    /\ \E Blocking \in {{}, {<<0, 0, 0>>}},
          Narrow \in {{}, {<<3, 0, 0>>, <<30, 40, 0>>}} :
          camera = [CameraStatics EXCEPT !.Blocking = Blocking,
                                         !.Confined = Blocking \cup Narrow]

ConstrainCameraByGeometryCall ==
    /\ camera.calls < MaxCalls
    /\ \E New \in CameraLocations, Previous \in CameraLocations,
          Original \in OriginalLocations, Hit \in HitResults :
          LET CameraRadius == console["r.photography.constrain.camerasize"]
              res == ConstrainCameraByGeometry(camera, CameraRadius, New, Previous,
                                               Original, Hit)
          IN  /\ camera' = [res.cam EXCEPT !.calls = camera.calls + 1]
              /\ obs' = [ObsInit EXCEPT
                            !.last = "ConstrainCameraByGeometry",
                            !.ret = [New |-> New, Previous |-> Previous,
                                     Original |-> Original, Hit |-> Hit,
                                     CameraRadius |-> CameraRadius,
                                     Out |-> res.Out, Tracked |-> res.Tracked,
                                     Overlaps |-> res.Overlaps,
                                     Rejected |-> res.Rejected]]
    /\ UNCHANGED <<provider, engine, console, sdk, frame, module, twin>>

\* UAnselFunctionLibrary::SetCameraConstraintCameraSize.
SetCameraConstraintCameraSize ==
    /\ \E CameraSize \in {-1, 14} :
          console' = [console EXCEPT !["r.photography.constrain.camerasize"] = CameraSize]
    /\ obs' = [ObsInit EXCEPT !.last = "SetCameraConstraintCameraSize"]
    /\ UNCHANGED <<provider, engine, sdk, frame, module, twin, camera>>

NextGeometry == ConstrainCameraByGeometryCall \/ SetCameraConstraintCameraSize

SpecGeometry == InitGeometry /\ [][NextGeometry]_vars

(***************************************************************************)
(* Pair specification: two runs of the plugin receive the same SDK         *)
(* callbacks, frames and inputs.  The first run (provider, engine,         *)
(* console, sdk) starts with any combination of r.Photography.AutoPause    *)
(* and r.Photography.AutoPostprocess and any values of the members without *)
(* initializer; the second (twin) is the reference run.  Two runs that     *)
(* each behave as the reference run behave alike.                          *)
(***************************************************************************)
TwinWorld == [p |-> twin.p, e |-> twin.e, c |-> twin.c, s |-> twin.s,
              m |-> module, k |-> {}, t |-> {}, r |-> FALSE]

InitPair ==
    /\ \E uAutoPause \in BOOLEAN, uAutoPostprocess \in BOOLEAN, uNeedRebuild \in BOOLEAN :
          provider = ProviderConstructed(uAutoPause, uAutoPostprocess, uNeedRebuild)
    /\ engine = [GIsEditor |-> FALSE] @@ RunningGame
    /\ \E autoPause \in {0, 1}, autoPostprocess \in {0, 1} :
          console = [PhotographyCVarDefaults EXCEPT
                        !["r.photography.autopause"] = autoPause,
                        !["r.photography.autopostprocess"] = autoPostprocess]
                    @@ EngineCVarDefaults
    /\ sdk = [sessionOpen |-> FALSE, captureActive |-> FALSE,
              config |-> ConstructorConfig(1)]
    /\ frame = [next |-> "UpdateCamera", pc |-> "idle"]
    /\ obs = ObsInit
    /\ module = ModuleWithProvider
    /\ twin = ReferenceRun
    /\ camera = CameraStatics

\* Both runs execute the same handler: W2 and T2 are the worlds it leaves.
CommitPair(name, W2, T2, next) ==
    /\ CommitRun(name, W2, next, frame.pc)
    /\ twin' = [p |-> T2.p, e |-> T2.e, c |-> T2.c, s |-> T2.s,
                k |-> T2.k, r |-> T2.r]

PairUpdateCamera ==
    /\ frame.next = "UpdateCamera"
    /\ \E in \in FrameInputs :
          CommitPair("UpdateCamera", UpdateCameraBody(World, in),
                     UpdateCameraBody(TwinWorld, in), "UpdatePostProcessing")

PairUpdatePostProcessing ==
    /\ frame.next = "UpdatePostProcessing"
    /\ \E pp \in PostProcessInputs :
          CommitPair("UpdatePostProcessing", UpdatePostProcessingBody(World, pp),
                     UpdatePostProcessingBody(TwinWorld, pp), "UpdateCamera")

PairStartSessionCallback ==
    /\ ~sdk.sessionOpen
    /\ LET W2 == AnselStartSessionCallback(World)
           T2 == AnselStartSessionCallback(TwinWorld)
       IN CommitPair("AnselStartSessionCallback",
                     [W2 EXCEPT !.s.sessionOpen = (W2.r = "kAllowed")],
                     [T2 EXCEPT !.s.sessionOpen = (T2.r = "kAllowed")], frame.next)

PairStopSessionCallback ==
    /\ sdk.sessionOpen /\ ~sdk.captureActive
    /\ CommitPair("other",
                  [AnselStopSessionCallback(World) EXCEPT !.s.sessionOpen = FALSE],
                  [AnselStopSessionCallback(TwinWorld) EXCEPT !.s.sessionOpen = FALSE],
                  frame.next)

PairStartCaptureCallback ==
    /\ sdk.sessionOpen /\ ~sdk.captureActive
    /\ \E CaptureInfo \in {"kCaptureTypeSuperResolution"} :
          CommitPair("other",
              [AnselStartCaptureCallback(World, CaptureInfo) EXCEPT !.s.captureActive = TRUE],
              [AnselStartCaptureCallback(TwinWorld, CaptureInfo) EXCEPT !.s.captureActive = TRUE],
              frame.next)

PairStopCaptureCallback ==
    /\ sdk.captureActive
    /\ CommitPair("other",
                  [AnselStopCaptureCallback(World) EXCEPT !.s.captureActive = FALSE],
                  [AnselStopCaptureCallback(TwinWorld) EXCEPT !.s.captureActive = FALSE],
                  frame.next)

NextPair ==
    \/ PairUpdateCamera
    \/ PairUpdatePostProcessing
    \/ PairStartSessionCallback
    \/ PairStopSessionCallback
    \/ PairStartCaptureCallback
    \/ PairStopCaptureCallback

SpecPair == InitPair /\ [][NextPair]_vars


(***************************************************************************)
(* Properties                                                              *)
(***************************************************************************)
\* C1: once UpdateCamera has processed the stop of a session, InitialCVarMap
\* is empty and every console variable the plugin wrote through
\* SetCapturedCVar / SetCapturedCVarPredicated since the session started
\* holds the value it had when the session first captured it.
C1_CVarsRestored ==
    obs.ended =>
        /\ provider.InitialCVarMap = << >>
        /\ \A n \in DOMAIN obs.sessionSet : console[n] = obs.sessionSet[n]

\* C2: after UpdateCamera has processed the end of a session, pause state,
\* time dilation, HUD visibility, subtitles, fading, screen messages and
\* bIsCameraMoveableWhenPaused equal the values they had just before the
\* first frame of that session.
C2_EngineStateRestored ==
    obs.ended => SessionEngineState(engine) = obs.preSession.e

\* The step is an UpdateCamera call made while a session is active.
SessionFrameStep == obs'.last = "UpdateCamera" /\ provider.bAnselSessionActive

\* The step is the first UpdateCamera call of a session.
FirstSessionFrameStep == SessionFrameStep /\ obs.needSnapshot

C3_Step ==
    /\ (/\ FirstSessionFrameStep
        /\ console["r.photography.autopause"] # 0
        /\ ~engine.Paused)
          => engine'.TimeDilation = 0
    /\ (/\ SessionFrameStep /\ ~obs.needSnapshot /\ ~obs'.ended
        /\ obs.preSession.autoPause # 0 /\ ~obs.preSession.e.Paused
        /\ provider.NumFramesSinceSessionStart = PauseFrame - 1)
          => "SetPause(true)" \in obs'.calls
    /\ "SetPause(true)" \in obs'.calls
          => /\ provider'.NumFramesSinceSessionStart = PauseFrame
             /\ obs'.pauseIssued = 1
             /\ ~obs'.ended

\* C3: in a session started with AutoPause on and the game not paused, the
\* first session frame sets time dilation to 0, the frame on which
\* NumFramesSinceSessionStart reaches 2 issues SetPause(true), and
\* SetPause(true) is issued on no other frame, at most once per session and
\* never on the frame that processes the deactivation.
C3_PauseSequencing == [][C3_Step]_vars

C4_Step ==
    /\ obs'.last = "AnselStartSessionCallback" =>
          /\ obs'.ret = "kAllowed" <=>
                (/\ console["r.photography.allow"] # 0
                 /\ ~provider.bForceDisallow
                 /\ ~engine.GIsEditor)
          /\ obs'.ret \in {"kAllowed", "kDisallowed"}
          /\ obs'.ret = "kDisallowed" =>
                /\ provider'.bAnselSessionActive = provider.bAnselSessionActive
                /\ provider'.bAnselSessionNewlyActive = provider.bAnselSessionNewlyActive
                /\ provider'.bHighQualityModeDesired = provider.bHighQualityModeDesired
    /\ console["r.photography.allow"] = 0 =>
          (provider'.bAnselSessionActive => provider.bAnselSessionActive)

\* C4: the start-session callback returns kAllowed exactly when
\* r.Photography.Allow is non-zero, bForceDisallow is false and the process
\* is not the editor; a disallowed start changes none of bAnselSessionActive,
\* bAnselSessionNewlyActive, bHighQualityModeDesired; while
\* r.Photography.Allow is 0 no step makes a session active.
C4_StartSessionAllowed == [][C4_Step]_vars

\* A start request refused only because SetIsPhotographyAllowed(false) ran.
C4_Witness ==
    /\ obs.last = "AnselStartSessionCallback" /\ obs.ret = "kDisallowed"
    /\ console["r.photography.allow"] = 0
    /\ ~provider.bForceDisallow /\ ~engine.GIsEditor

\* C5: a session whose first-frame setup has modified engine state stays
\* active until the restoring branch of UpdateCamera has run; no callback
\* drops it, wherever in UpdateCamera the callback arrives.
C5_SetupSessionNotDropped ==
    obs.engineModified => provider.bAnselSessionActive

C6_Step ==
    (/\ obs'.last = "CreateCameraPhotography"
     /\ module.started /\ ~module.bAnselDLLLoaded)
       => /\ obs'.ret = 0
          /\ \A available \in BOOLEAN : ~IsSupported(World, available).r
          /\ module'.sinks = module.sinks
          /\ module'.configs = module.configs
          /\ obs'.calls = {}
          /\ sdk' = sdk

\* C6: when the DLL did not load, IsSupported() is false,
\* CreateCameraPhotography returns a null provider, and the construction
\* and destruction of the provider object register no sink, allocate no
\* ansel::Configuration and make no SDK call.
C6_DLLLoadFailureGraceful == [][C6_Step]_vars

\* CreateCameraPhotography ran after a failed DLL load.
C6_Witness ==
    /\ obs.last = "CreateCameraPhotography"
    /\ module.started /\ ~module.bAnselDLLLoaded
    /\ obs.ret = 0
    /\ \E i \in 1..MaxProviders : module.objects[i] = "destroyed"

\* Every run of SetCapturedCVar... statements the plugin has.
ConfigurationPasses ==
    {SessionCVarCalls, CaptureCVarCalls}
    \cup {LodCVarCalls(b) : b \in BOOLEAN}
    \cup {QualityCVarCalls(b) : b \in BOOLEAN}
    \cup {ExtremeCVarCalls(b) : b \in BOOLEAN}

\* The calls of a pass whose console variable exists.
KnownCalls(calls) == SelectSeq(calls, LAMBDA call : call.CVarName \in DOMAIN console)

\* C7: a SetCapturedCVar / SetCapturedCVarPredicated call on a name the
\* console manager does not know leaves InitialCVarMap and every console
\* variable as they are, and a configuration pass ends in the state it
\* would end in without its calls on unknown names.
C7_MissingCVarsSkipped ==
    /\ DOMAIN provider.InitialCVarMap \subseteq DOMAIN console
    /\ \A pass \in ConfigurationPasses :
          /\ \A i \in DOMAIN pass :
                pass[i].CVarName \notin DOMAIN console
                   => SetCapturedCVarPredicated(World, pass[i]) = World
          /\ SetCapturedCVars(World, pass) = SetCapturedCVars(World, KnownCalls(pass))

\* The session pass ran in a build without r.Streaming.Boost: the call after
\* the unknown name captured and set r.motionblurquality.
C7_Witness ==
    /\ "r.streaming.boost" \notin DOMAIN console
    /\ "OnPhotographySessionStart" \in obs.calls
    /\ "r.motionblurquality" \in DOMAIN provider.InitialCVarMap
    /\ console["r.motionblurquality"] = 0
    /\ "r.streaming.boost" \notin DOMAIN provider.InitialCVarMap

\* C8: every registered sink belongs to a live provider object, and the
\* SDK holds callbacks and a userPointer only of a live provider object,
\* whatever the order of ShutdownModule and the provider's destruction.
C8_RegistrationLifecycle ==
    /\ \A this \in module.sinks : module.objects[this] = "alive"
    /\ sdk.config.userPointer # 0 =>
          module.objects[sdk.config.userPointer] = "alive"

\* The current session (in progress, or ended by the last handler).
InSession == ~obs.needSnapshot \/ obs.ended

PauseCalls == {"SetPause(true)", "SetPause(false)", "SetTimeDilation"}

\* C9: if r.Photography.AutoPause is 0 when the first frame of a session is
\* processed, no handler of that session calls SetPause or SetTimeDilation.
C9_NoPauseCallsWhenAutoPauseOff ==
    (InSession /\ obs.preSession.autoPause = 0) => obs.calls \cap PauseCalls = {}

PostprocessCalls == {"ShowHUD", "SetSubtitlesEnabled", "bEnableFading"}

\* C10: if r.Photography.AutoPostprocess is 0 when the first frame of a
\* session is processed, no handler of that session toggles the HUD or
\* writes the subtitles or fading flags, and UpdatePostProcessing raises
\* none of the capture overrides.
C10_NoPostprocessWhenAutoPostprocessOff ==
    (InSession /\ obs.preSession.autoPostprocess = 0) =>
        /\ obs.calls \cap PostprocessCalls = {}
        /\ obs.last = "UpdatePostProcessing" => obs.ret.overrides = {}

\* The Blueprint events of APlayerCameraManager the plugin fires.
BlueprintCallbacks ==
    {"OnPhotographySessionStart", "OnPhotographySessionEnd",
     "OnPhotographyMultiPartCaptureStart", "OnPhotographyMultiPartCaptureEnd"}

\* C11: fed the same SDK callbacks and frames, a run with any combination
\* of AutoPause and AutoPostprocess fires the four Blueprint callbacks in
\* exactly the handler calls in which the reference run fires them, and the
\* start-session callback returns the same status in both runs.
C11_CallbacksIndependentOfSettings ==
    /\ obs.calls \cap BlueprintCallbacks = twin.k \cap BlueprintCallbacks
    /\ sdk.sessionOpen = twin.s.sessionOpen
    /\ obs.last = "AnselStartSessionCallback" => obs.ret = twin.r

\* Both runs end a session in the same UpdateCamera call, the run with
\* both settings off having left pause and HUD alone while the reference
\* run paused the game and is unpausing it.
C11_Witness ==
    /\ console["r.photography.autopause"] = 0
    /\ console["r.photography.autopostprocess"] = 0
    /\ "OnPhotographySessionEnd" \in obs.calls
    /\ "OnPhotographySessionEnd" \in twin.k
    /\ "SetPause(false)" \in twin.k
    /\ "SetPause(false)" \notin obs.calls

\* The sliders DeclareSlider has registered and that are still in use.
DeclaredSliders == provider.UIControls \cap DOMAIN provider.UIControlRangeLower

\* C12: in a session whose first frame found r.Photography.AutoPostprocess
\* at 0, after UpdatePostProcessing no effect slider is registered with the
\* SDK and no slider value has been applied to the post-process settings.
C12_NoEffectControlsWhenAutoPostprocessOff ==
    (/\ InSession /\ obs.preSession.autoPostprocess = 0
     /\ obs.last = "UpdatePostProcessing")
       => /\ DeclaredSliders = {}
          /\ obs.ret.overrides \cap {SliderField(id) : id \in SliderIds} = {}

\* The sliders that belong to an effect of EUIControlEffectTarget.
EffectSliders(target) ==
    CASE target = "DepthOfField" ->
             {"control_dofscale", "control_doffocalregion", "control_dofsensorwidth",
              "control_doffocaldistance", "control_dofdepthbluramount",
              "control_dofdepthblurradius"}
      [] target = "Bloom" -> {"control_bloomintensity", "control_bloomscale"}
      [] target = "ChromaticAberration" -> {"control_scenefringeintensity"}
      [] OTHER -> {}

\* The sliders the rebuild declares for an effect that is visible and
\* present in the settings pp.
SlidersOfPresentEffect(target, pp) ==
    CASE target = "DepthOfField" ->
             IF pp.val["DepthOfFieldFstop"] > 0 /\ pp.val["DepthOfFieldFocalDistance"] > 0
             THEN {"control_dofsensorwidth", "control_doffocaldistance",
                   "control_dofdepthbluramount", "control_dofdepthblurradius"}
             ELSE {}
      [] target = "Bloom" ->
             IF pp.val["BloomIntensity"] > 0 THEN EffectSliders("Bloom") ELSE {}
      [] target = "ChromaticAberration" ->
             IF pp.val["SceneFringeIntensity"] > 0
             THEN EffectSliders("ChromaticAberration") ELSE {}
      [] OTHER -> {}

\* The step is an UpdatePostProcessing call that rebuilds the controls.
RebuildStep ==
    /\ obs'.last = "UpdatePostProcessing"
    /\ provider.bAnselSessionActive /\ provider.bUIControlsNeedRebuild

C13_Step ==
    /\ provider'.bEffectUIAllowed # provider.bEffectUIAllowed
          => obs'.last = "SetUIControlVisibility"
    /\ provider'.UIControls # provider.UIControls => RebuildStep
    /\ (provider'.bUIControlsNeedRebuild /\ ~provider.bUIControlsNeedRebuild)
          => "OnPhotographySessionStart" \in obs'.calls
    /\ RebuildStep =>
          \A target \in EUIControlEffectTarget :
             IF provider.bEffectUIAllowed[target]
             THEN SlidersOfPresentEffect(target, provider'.UEPostProcessingOriginal)
                     \subseteq provider'.UIControls
             ELSE EffectSliders(target) \cap provider'.UIControls = {}
    /\ (obs'.last = "UpdatePostProcessing" /\ provider.bAnselSessionActive) =>
          \A id \in SliderIds \ provider'.UIControls :
             /\ obs'.ret.val[SliderField(id)] =
                   provider'.UEPostProcessingOriginal.val[SliderField(id)]
             /\ SliderField(id) \notin obs'.ret.overrides

C14_SettingsReachSDK ==
    obs.last = "CVarSink" =>
        /\ provider.AnselConfig.captureSettleLatency =
              console["r.photography.settleframes"]
        /\ provider.AnselConfig.translationalSpeedInWorldUnitsPerSecond =
              console["r.photography.translationspeed"]

\* The location out is exactly the point p.
IsLocation(out, p) ==
    \/ out.Direction = ZeroVector /\ out.Origin = p
    \/ /\ out.ScaleNum >= 0 /\ out.ScaleNum * out.ScaleNum = out.ScaleDenSq
       /\ VecAdd(out.Origin, out.Direction) = p

\* The location out is no farther than d >= 0 from the point p it is
\* measured from (its Origin).
WithinDistanceOfOrigin(out, d) ==
    SizeSquared(out.Direction) * out.ScaleNum * out.ScaleNum <= d * d * out.ScaleDenSq

\* The location out lies on the segment from p to q.
OnSegment(out, p, q) ==
    \/ IsLocation(out, p)
    \/ /\ out.Origin = p /\ out.Direction = VecSub(q, p)
       /\ out.ScaleNum >= 0 /\ out.ScaleNum * out.ScaleNum <= out.ScaleDenSq

\* What every call of ConstrainCameraByDistance satisfies, for any limit:
\* no limit when MaxDistance < 0; otherwise the output is within MaxDistance
\* of the original location and on the segment from the original location
\* to the new one; PreviousCameraLocation does not matter.
DistanceConstraintCommon(c) ==
    /\ c.MaxDistance < 0 => IsLocation(c.Out, c.New)
    /\ c.MaxDistance >= 0 =>
          /\ c.Out.Origin = c.Original
          /\ WithinDistanceOfOrigin(c.Out, c.MaxDistance)
          /\ OnSegment(c.Out, c.Original, c.New)
    /\ \A Previous \in CameraLocations :
          ConstrainCameraByDistance(c.New, Previous, c.Original, c.MaxDistance) = c.Out

\* NewCameraLocation is within MaxDistance of OriginalCameraLocation.
NewWithinMaxDistance(c) ==
    SizeSquared(VecSub(c.New, c.Original)) <= c.MaxDistance * c.MaxDistance

C16_ConstrainCameraByGeometry ==
    obs.last = "ConstrainCameraByGeometry" =>
        LET c == obs.ret
        IN  /\ c.CameraRadius < 0 => c.Out = c.New
            /\ c.Tracked = c.New => c.Out = c.New
            /\ (c.CameraRadius >= 0 /\ c.Overlaps /\ ~c.Rejected) => c.Out = c.New
            /\ \/ c.Out \in {c.New, c.Previous}
               \/ c.Hit.bBlockingHit /\ c.Out = c.Hit.Location

\* A call from an occupied tracked point whose sweep would have hit, after a
\* call that moved the tracked point.
C16_Witness ==
    /\ obs.last = "ConstrainCameraByGeometry"
    /\ camera.calls = 2
    /\ obs.ret.CameraRadius >= 0 /\ obs.ret.Overlaps /\ ~obs.ret.Rejected
    /\ obs.ret.Hit.bBlockingHit
    /\ obs.ret.Previous # obs.ret.Original
    /\ obs.ret.Tracked # obs.ret.New /\ obs.ret.Out = obs.ret.New

\* C17: IsPhotographyAllowed() after SetIsPhotographyAllowed(b) returns b;
\* SetIsPhotographyAllowed(b) twice leaves what one call leaves; neither
\* call changes another console variable or the provider; and
\* IsPhotographyAllowed changes no console variable at all.
C17_Step ==
    /\ obs'.last = "SetIsPhotographyAllowed" =>
          /\ IsPhotographyAllowed(World').r = obs'.ret
          /\ SetIsPhotographyAllowedTo(World', obs'.ret).c = console'
          /\ \A n \in DOMAIN console \ {"r.photography.allow"} : console'[n] = console[n]
          /\ DOMAIN console' = DOMAIN console
          /\ provider' = provider
    /\ obs'.last = "IsPhotographyAllowed" =>
          /\ obs'.ret = (console["r.photography.allow"] # 0)
          /\ console' = console
          /\ provider' = provider

C17_AllowFlagAccessors == [][C17_Step]_vars

\* IsPhotographyAllowed returns false during a session: the flag was
\* cleared with SetIsPhotographyAllowed(false) after the session started.
C17_Witness ==
    /\ obs.last = "IsPhotographyAllowed"
    /\ obs.ret = FALSE
    /\ provider.bAnselSessionActive

\* A handler that calls OnPhotographySessionEnd runs only while an
\* OnPhotographySessionStart is unanswered, and one that calls
\* OnPhotographySessionStart only while none is.
C18_Step ==
    /\ "OnPhotographySessionEnd" \in obs'.calls => obs.engineModified
    /\ "OnPhotographySessionStart" \in obs'.calls => ~obs.engineModified

\* C18: OnPhotographySessionStart and OnPhotographySessionEnd are called
\* strictly alternately, beginning with Start, whatever the sequence of
\* start / stop callbacks and UpdateCamera frames.
C18_NotificationsAlternate == [][C18_Step]_vars

\* C19: while the SDK has a session open (the start callback returned
\* kAllowed and no stop callback has arrived since), bAnselSessionActive is
\* true after every UpdateCamera call.
C19_PluginAgreesWithSDK ==
    (obs.last = "UpdateCamera" /\ frame.pc = "idle" /\ sdk.sessionOpen)
        => provider.bAnselSessionActive

\* The step is a stop-session callback that finds bAnselSessionActive and
\* bAnselSessionNewlyActive both true.
DroppingStopStep ==
    /\ sdk.sessionOpen /\ ~sdk'.sessionOpen
    /\ provider.bAnselSessionActive /\ provider.bAnselSessionNewlyActive

C20_Step ==
    DroppingStopStep =>
        /\ ~provider'.bAnselSessionActive
        /\ provider'.bAnselSessionWantDeactivate = provider.bAnselSessionWantDeactivate
        /\ obs'.calls \cap {"OnPhotographySessionStart", "OnPhotographySessionEnd"} = {}
        /\ provider'.InitialCVarMap = << >>
        /\ \A n \in DOMAIN obs'.firstSet : console'[n] = obs'.firstSet[n]

\* C20: a stop-session callback that arrives while bAnselSessionActive and
\* bAnselSessionNewlyActive are both true makes the session inactive
\* without setting bAnselSessionWantDeactivate and without a session
\* notification, and leaves no console variable changed by the plugin: no
\* captured value stays in InitialCVarMap and every console variable the
\* plugin wrote holds the value it had before.
C20_DroppedSessionLeavesNothing == [][C20_Step]_vars

C21_Step ==
    (obs'.last = "UpdateCamera" /\ obs.stopPending) =>
        /\ ~provider'.bAnselSessionActive
        /\ ~provider'.bAnselSessionWantDeactivate
        /\ "OnPhotographySessionEnd" \in obs'.calls
        /\ "AnselCameraToFMinimalView" \notin obs'.calls
        /\ "PhotographyCameraModify" \notin obs'.calls

\* C21: the first UpdateCamera call after a stop-session callback for a
\* session UpdateCamera has acted on clears bAnselSessionActive and
\* bAnselSessionWantDeactivate, runs the restoring branch with
\* OnPhotographySessionEnd, and neither writes the POV from the SDK camera
\* nor calls PhotographyCameraModify.
C21_StopHonouredNextFrame == [][C21_Step]_vars

CaptureNotifications ==
    {"OnPhotographyMultiPartCaptureStart", "OnPhotographyMultiPartCaptureEnd"}

\* C22: the capture notifications are delivered in the order of the capture
\* callbacks that caused them.  UpdateCamera delivers
\* OnPhotographyMultiPartCaptureStart before
\* OnPhotographyMultiPartCaptureEnd when it delivers both, so the End it
\* delivers must belong to the capture that Start announced: the last
\* capture callback was the stop, and no capture is in progress.
C22_CaptureNotificationsInOrder ==
    (obs.last = "UpdateCamera" /\ CaptureNotifications \subseteq obs.calls)
        => ~sdk.captureActive

C23_Step ==
    (obs'.last = "UpdateCamera" /\ frame.pc = "idle" /\ frame'.pc = "idle") =>
        LET active == provider.bAnselSessionActive
            started == provider.bAnselCaptureNewlyActive
            finished == provider.bAnselCaptureNewlyFinished
        IN  /\ obs'.ret = (active /\ (started \/ finished))
            /\ active =>
                  /\ ~provider'.bAnselCaptureNewlyActive
                  /\ ~provider'.bAnselCaptureNewlyFinished
                  /\ ("OnPhotographyMultiPartCaptureStart" \in obs'.calls) = started
                  /\ ("OnPhotographyMultiPartCaptureEnd" \in obs'.calls) = finished
            /\ ~active =>
                  /\ provider'.bAnselCaptureNewlyActive = started
                  /\ provider'.bAnselCaptureNewlyFinished = finished
                  /\ obs'.calls \cap CaptureNotifications = {}

\* C23: UpdateCamera returns true exactly when it runs with a session
\* active and a capture-start or capture-finish flag pending; it then sends
\* the notification of each pending flag and clears the flag.  With no
\* session active it returns false, sends no capture notification and
\* leaves the flags as they are, so that the first frame of the next
\* session consumes them.
C23_CameraCutReporting == [][C23_Step]_vars

\* A frame that ran with no session active left a capture-finish flag
\* pending.
C23_Witness ==
    /\ obs.last = "UpdateCamera" /\ obs.ret = FALSE
    /\ ~provider.bAnselSessionActive
    /\ provider.bAnselCaptureNewlyFinished
    /\ obs.setupEverDone

C24_Step ==
    (/\ obs'.last = "UpdateCamera" /\ frame.pc = "idle" /\ frame'.pc = "idle"
     /\ provider.bAnselSessionActive) =>
        /\ provider.bAnselCaptureActive =>
              /\ "PhotographyCameraModify" \notin obs'.calls
              /\ "bConstrainAspectRatio=false" \in obs'.calls
        /\ provider.bAnselSessionNewlyActive =>
              "PhotographyCameraModify" \notin obs'.calls

\* C24: an UpdateCamera call that runs with a session active and
\* bAnselCaptureActive true does not call PhotographyCameraModify and ends
\* by clearing bConstrainAspectRatio of the POV; the first frame of a
\* session does not call PhotographyCameraModify either.
C24_CaptureCameraOwnedBySDK == [][C24_Step]_vars

\* A frame of a capture, after the first frame of its session: the camera
\* came from the SDK and the Blueprint hook was passed over.
C24_Witness ==
    /\ obs.last = "UpdateCamera"
    /\ provider.bAnselSessionActive /\ provider.bAnselCaptureActive
    /\ "OnPhotographySessionStart" \notin obs.calls
    /\ "ansel::updateCamera" \in obs.calls
    /\ "bConstrainAspectRatio=false" \in obs.calls
    /\ "PhotographyCameraModify" \notin obs.calls

\* The plugin's record of the configuration equals the configuration the
\* SDK last accepted.
RecordTruthful ==
    /\ provider.CurrentlyConfiguredFovType = sdk.config.fovType
    /\ provider.CurrentlyConfiguredWorldToMeters = sdk.config.worldToMeters
    /\ module.LastSettleFrames # -1 =>
          /\ module.LastSettleFrames = sdk.config.captureSettleLatency
          /\ module.LastTranslationSpeed =
                 sdk.config.translationalSpeedInWorldUnitsPerSecond

\* The accepted configuration is the one the view requires.
RequiredConfigured ==
    /\ provider.RequiredWorldToMeters # 0
    /\ sdk.config.fovType = provider.RequiredFovType
    /\ sdk.config.worldToMeters = provider.RequiredWorldToMeters

C25_Step ==
    /\ "ansel::setConfiguration" \in obs'.calls => ~provider.bAnselSessionActive
    /\ RecordTruthful'
    /\ (obs'.last = "UpdateCamera" /\ ~provider.bAnselSessionActive)
          => RequiredConfigured'

\* C25: no handler calls ansel::setConfiguration while a session is
\* active; CurrentlyConfiguredFovType, CurrentlyConfiguredWorldToMeters and
\* the sink's last-seen values always equal the values of the configuration
\* the SDK last accepted; and after every UpdateCamera call made with no
\* session active the accepted configuration has the required FOV type and
\* world scale, the latter not 0.
C25_ConfigurationTruthful == [][C25_Step]_vars

====
